---- MODULE Spec2Model ----
(***************************************************************************)
(* A model of the Forked daemon (forked-daemon/index.js): the trace store, *)
(* the in-memory lineage maps, the ingest handler of the tracer websocket, *)
(* tryLinkFork, POST /api/fork with its await points, the rewind engine    *)
(* and POST /api/rewind, together with the tracer (forked-tracer/index.ts) *)
(* that produces the frames.                                               *)
(*                                                                         *)
(* Run ids are strings in the program.  A run id is modelled as the record *)
(* [pre, at, n]: the string pre when at = -1, the string pre_<at> when     *)
(* n = -1 and the string pre_<at>_<n> otherwise, where at is a reading of  *)
(* the millisecond clock.  JS null is Null for strings and NoRun for run   *)
(* ids.                                                                    *)
(*                                                                         *)
(* Spec is the lineage specification (two runs of one session and their    *)
(* forks), LongRunSpec follows one run past the auto-promotion limit, and  *)
(* RewindSpec follows one run whose agent writes files and is rewound.     *)
(* The variables stamped and fsHist are history variables: no action reads *)
(* them.                                                                   *)
(***************************************************************************)
EXTENDS Integers, Sequences, FiniteSets, TLC

\* ------------------------------------------------------------------ bounds
\* frames the tracer sends
MaxSeq == 3
\* POST /api/fork requests
MaxForks == 2
\* POST /api/rewind requests
MaxRewinds == 1
\* frames the tracer sends in the long-run specification
MaxLongSeq == 4
\* frames the tracer sends in the rewind specification
MaxRewindSeq == 4
\* frames the tracer sends in the fork-with-rewind specification
MaxForkRewindSeq == 3
\* POST /api/fork requests in the fork-with-rewind specification
MaxRewindForks == 1
\* frames and fork requests of HintSpec
MaxHintSeq == 2
MaxHintForks == 1
\* frames the daemon receives in BackgroundSpec
MaxBgSeq == 3
\* frames a tracer sends in SnapshotSpec
MaxSnapSeq == 4
\* frames a tracer sends in RewindFailSpec
MaxFailSeq == 3
\* clock ticks, frames and fork requests of TimedSpec
MaxTicks == 11
MaxGwTicks == 5
\* frames and fork requests of AnyRunIdSpec
MaxAnySeq == 2
MaxAnyForks == 2
\* frames and fork requests of IngestFailSpec
MaxIngestFailSeq == 2
MaxIngestFailForks == 1
\* frames and fork requests of TwoSessionSpec
MaxTwoSeq == 3
MaxTwoForks == 1
MaxAuditSeq == 3
MaxAuditForks == 1
MaxSweepSeq == 2
MaxSweepForks == 1
MaxWeeks == 3
\* frames and fork requests of LaneSpec
MaxLaneSeq == 3
MaxLaneForks == 2
\* clock ticks and frames of FetchSpec
MaxFetchTicks == 2
MaxFetchSeq == 3
MaxCalls == 2
MaxTimedSeq == 2
MaxTimedForks == 1

\* ------------------------------------------------------- program constants
REWIND_AUDIT_SEQ == 999999
AUTO_PROMOTE_MAX_EVENTS == 2
RECENT_RUNS_LIMIT == 5
MS_PER_SECOND == 1000

\* ------------------------------------------------------------ value spaces
Null == "null"
NoRun == [pre |-> "null", at |-> -1, n |-> -1]
TracerId(name) == [pre |-> name, at |-> -1, n |-> -1]
UnknownRun == TracerId("unknown")
TracerRuns == {TracerId("A"), TracerId("B")}
Sessions == {"S1", "S2"}
Paths == {"f", "g"}
Contents == {"X", "Y"}
NoSnap == [filePath |-> Null]
NoCtl == [runId |-> NoRun, targetSeq |-> -1]

\* String.prototype.slice(0, 8) of a run id.  Tracer ids and session keys of
\* the model are shorter than 8 characters.  An id bg_<key>_<ms>_<seq> keeps
\* "bg_" key "_" and the leading digits of the epoch milliseconds (17...).
\* An id fork_<p>_<ms> with a one-character p keeps "fork_" p "_" and the
\* first digit of the milliseconds; with a longer p (itself "fork_...") it
\* keeps "fork_for".
Slice8(id) ==
  IF id.at = -1 THEN id.pre
  ELSE IF id.n # -1 THEN id.pre \o "_17"
  ELSE IF Len(id.pre) = 6 THEN id.pre \o "_1"
  ELSE "fork_for"

\* `fork_${originalRunId.slice(0, 8)}_${Date.now()}`
NewSessionId(originalRunId, nowMs) ==
  [pre |-> "fork_" \o Slice8(originalRunId), at |-> nowMs, n |-> -1]

\* `bg_${eventSessionKey.slice(0, 8)}_${eventTs}_${eventSeq}`
BgRunId(sessionKey, eventTs, eventSeq) ==
  [pre |-> "bg_" \o sessionKey, at |-> eventTs, n |-> eventSeq]

\* ------------------------------------------------------------------- state
VARIABLES
  traces,            \* table traces, in insertion (id) order
  file_snapshots,    \* table file_snapshots, in insertion (id) order
  pendingForks,      \* Map forkId -> fork, in insertion order
  linkedForkRuns,    \* Set of run ids
  runLineage,        \* Map run_id -> {isFork, forkedFromRunId, sessionKey}
  sessionForkHeads,  \* Map session_key -> run_id
  seenRuns,          \* Set of the current tracer connection
  seq,               \* the tracer's frame counter
  lastSessionKey,    \* the tracer's last session key
  now,               \* Date.now(), in ms
  disk,              \* the file system: path -> [exists, content]
  forks,             \* the POST /api/fork handlers: slot -> handler state
  gwSent,            \* requests handed to the gateway client, in order
  rewinds,           \* POST /api/rewind requests served so far
  tool,              \* the tool call the agent has open, if any
  last,              \* the operation of the last step and its outcome
  stamped,           \* history: run -> the head its session had when an
                     \* event of the run, then of at most 2 rows, came in
  fsHist,            \* history: the disk at each frame, and the writes
  configuredChannels, \* Set CONFIGURED_CHANNELS, loaded at startup
  gwCall             \* a gateway call: its socket, flags and promise

\* no gateway call
NoCall ==
  [kind |-> Null, n |-> 0, startedAt |-> 0, socket |-> "none",
   authenticated |-> FALSE, reqId |-> Null, resolved |-> FALSE, timer |-> FALSE,
   outcome |-> Null, message |-> Null, sent |-> <<>>, settledAt |-> 0,
   closeEmitted |-> FALSE]

vars == <<traces, file_snapshots, pendingForks, linkedForkRuns, runLineage,
          sessionForkHeads, seenRuns, seq, lastSessionKey, now, disk,
          forks, gwSent, rewinds, tool, last, stamped, fsHist, configuredChannels, gwCall>>

\* ------------------------------------------------------------ map helpers
MapHas(m, k) == k \in DOMAIN m
MapSet(m, k, v) == [x \in (DOMAIN m) \cup {k} |-> IF x = k THEN v ELSE m[x]]
MapGet(m, k, dflt) == IF k \in DOMAIN m THEN m[k] ELSE dflt
EmptyMap == [x \in {} |-> Null]

Indices(s) == 1..Len(s)
RECURSIVE SelectIdx(_, _)
\* the subsequence of s at the indices of the set idx, in order
SelectIdx(s, idx) ==
  IF idx = {} THEN <<>>
  ELSE LET m == CHOOSE i \in idx : \A j \in idx : i <= j
       IN <<s[m]>> \o SelectIdx(s, idx \ {m})

\* ------------------------------------------------- prepared statements
\* INSERT INTO traces (...): created_at DEFAULT CURRENT_TIMESTAMP, in seconds
TraceRow(run_id, session_key, eseq, stream, ts, data, is_fork, parent, nowMs) ==
  [run_id |-> run_id, session_key |-> session_key, seq |-> eseq,
   stream |-> stream, ts |-> ts, data |-> data, is_fork |-> is_fork,
   forked_from_run_id |-> parent, created_at |-> nowMs \div MS_PER_SECOND]

\* UPDATE traces SET is_fork = 1, forked_from_run_id = ? WHERE run_id = ?
markRunAsForkedStmt(tr, parent, run) ==
  [i \in Indices(tr) |->
     IF tr[i].run_id = run
     THEN [tr[i] EXCEPT !.is_fork = 1, !.forked_from_run_id = parent]
     ELSE tr[i]]

\* SELECT COUNT(*) FROM traces WHERE run_id = ?
getRunEventCountStmt(tr, run) ==
  Cardinality({i \in Indices(tr) : tr[i].run_id = run})

\* the row of the index set idx that ORDER BY ts DESC, seq DESC puts first
LatestIdx(tr, idx) ==
  CHOOSE i \in idx : \A j \in idx :
     \/ tr[j].ts < tr[i].ts
     \/ tr[j].ts = tr[i].ts /\ tr[j].seq < tr[i].seq
     \/ tr[j].ts = tr[i].ts /\ tr[j].seq = tr[i].seq /\ j >= i

\* SELECT session_key FROM traces WHERE run_id = ? AND session_key IS NOT NULL
\* ORDER BY ts DESC, seq DESC LIMIT 1
getRunSessionKeyStmt(tr, run) ==
  LET idx == {i \in Indices(tr) : tr[i].run_id = run /\ tr[i].session_key # Null}
  IN IF idx = {} THEN Null ELSE tr[LatestIdx(tr, idx)].session_key

\* SELECT session_key FROM traces WHERE session_key IS NOT NULL ORDER BY ...
getLatestSessionKeyStmt(tr) ==
  LET idx == {i \in Indices(tr) : tr[i].session_key # Null}
  IN IF idx = {} THEN Null ELSE tr[LatestIdx(tr, idx)].session_key

\* ... WHERE stream = 'fork_info' AND session_key IS NOT NULL ORDER BY ...
getLatestForkSessionKeyStmt(tr) ==
  LET idx == {i \in Indices(tr) :
                tr[i].stream = "fork_info" /\ tr[i].session_key # Null}
  IN IF idx = {} THEN Null ELSE tr[LatestIdx(tr, idx)].session_key

\* ----------------------------------------------------------- tryLinkFork
\* The lineage state tryLinkFork reads and writes, as one value.
LinkState(tr, pend, linked, lin, heads) ==
  [traces |-> tr, pendingForks |-> pend, linkedForkRuns |-> linked,
   runLineage |-> lin, sessionForkHeads |-> heads]

DefaultLineage == [isFork |-> 0, forkedFromRunId |-> NoRun, sessionKey |-> Null]

\* pendingForks.delete(forkId) deleting nothing
PendingDeleteNothing(pend, forkId) == pend

\* pendingForks.delete(forkId)
PendingDelete(pend, forkId) ==
  SelectIdx(pend, {i \in Indices(pend) : pend[i].forkId # forkId})

\* pendingForks.set(forkId, fork): an existing key keeps its position
PendingSet(pend, fork) ==
  IF \E i \in Indices(pend) : pend[i].forkId = fork.forkId
  THEN [i \in Indices(pend) |->
          IF pend[i].forkId = fork.forkId THEN fork ELSE pend[i]]
  ELSE Append(pend, fork)

PendingHas(pend, forkId) == \E i \in Indices(pend) : pend[i].forkId = forkId

\* the pending forks tryLinkFork does not skip for runId
Linkable(pend, runId) ==
  {i \in Indices(pend) :
     ~(runId = pend[i].placeholderRunId \/ runId = pend[i].originalRunId)}

\* the loop of tryLinkFork: the first pending fork it does not skip adopts
\* runId
LinkOldest(s, runId) ==
  IF Linkable(s.pendingForks, runId) = {} THEN s
  ELSE
    LET k == CHOOSE i \in Linkable(s.pendingForks, runId) :
               \A j \in Linkable(s.pendingForks, runId) : i <= j
        fork == s.pendingForks[k]
        tr2 == markRunAsForkedStmt(s.traces, fork.placeholderRunId, runId)
        existing == MapGet(s.runLineage, runId, DefaultLineage)
        resolvedSessionKey ==
          IF existing.sessionKey # Null THEN existing.sessionKey
          ELSE IF getRunSessionKeyStmt(tr2, runId) # Null
               THEN getRunSessionKeyStmt(tr2, runId)
          ELSE fork.sessionKey
    IN [traces |-> tr2,
        pendingForks |-> PendingDelete(s.pendingForks, fork.forkId),
        linkedForkRuns |-> s.linkedForkRuns \cup {runId},
        runLineage |-> MapSet(s.runLineage, runId,
                         [isFork |-> 1,
                          forkedFromRunId |-> fork.placeholderRunId,
                          sessionKey |-> resolvedSessionKey]),
        sessionForkHeads |->
          IF resolvedSessionKey # Null
          THEN MapSet(s.sessionForkHeads, resolvedSessionKey, fork.placeholderRunId)
          ELSE s.sessionForkHeads]

\* tryLinkFork without the early return for a run already linked
tryLinkForkRelinking(s, runId) == LinkOldest(s, runId)

\* tryLinkFork(runId), on the state s of the store and the three maps
tryLinkFork(s, runId) ==
  IF runId \in s.linkedForkRuns THEN s ELSE LinkOldest(s, runId)

\* ------------------------------------------------------------ snapshots
\* INSERT INTO file_snapshots (...)
SnapshotRow(run_id, eseq, tool_name, file_path, content_before, content_after, existed_before, exists_after, nowMs) ==
  [run_id |-> run_id, seq |-> eseq, tool_name |-> tool_name,
   file_path |-> file_path, content_before |-> content_before,
   content_after |-> content_after, existed_before |-> existed_before,
   exists_after |-> exists_after, created_at |-> nowMs \div MS_PER_SECOND]

\* the same UPDATE with ORDER BY seq ASC: the oldest open row
updateSnapshotAfterStmtOldest(sn, content_after, exists_after, run, file_path) ==
  LET idx == {i \in Indices(sn) : /\ sn[i].run_id = run
                                  /\ sn[i].file_path = file_path
                                  /\ sn[i].content_after = Null}
  IN IF idx = {} THEN sn
     ELSE LET k == CHOOSE i \in idx : \A j \in idx : sn[j].seq >= sn[i].seq
          IN [sn EXCEPT ![k].content_after = content_after,
                        ![k].exists_after = exists_after]

\* UPDATE file_snapshots SET content_after = ?, exists_after = ? WHERE id =
\* (SELECT id ... WHERE run_id = ? AND file_path = ? AND content_after IS NULL
\*  ORDER BY seq DESC LIMIT 1)
updateSnapshotAfterStmt(sn, content_after, exists_after, run, file_path) ==
  LET idx == {i \in Indices(sn) : /\ sn[i].run_id = run
                                  /\ sn[i].file_path = file_path
                                  /\ sn[i].content_after = Null}
  IN IF idx = {} THEN sn
     ELSE LET k == CHOOSE i \in idx : \A j \in idx :
                     sn[j].seq < sn[i].seq \/ (sn[j].seq = sn[i].seq /\ j >= i)
          IN [sn EXCEPT ![k].content_after = content_after,
                        ![k].exists_after = exists_after]

Bit(b) == IF b THEN 1 ELSE 0

\* the file_snapshots table after the snapshot extraction of one frame
ExtractSnapshot(sn, eventRunId, frame, nowMs) ==
  LET data == frame.data
      snap == data.fileSnapshot
  IN IF snap = NoSnap \/ snap.filePath = Null THEN sn
     ELSE IF data.type = "tool_call_start"
     THEN Append(sn, SnapshotRow(eventRunId, frame.seq, data.toolName,
                   snap.filePath, snap.contentBefore, Null,
                   Bit(snap.existedBefore), 1, nowMs))
     ELSE IF data.type = "tool_call_end"
     THEN updateSnapshotAfterStmt(sn, snap.contentAfter, Bit(snap.existsAfter),
                                  eventRunId, snap.filePath)
     ELSE IF data.type \in {"config_change", "setup_file_change"}
     THEN Append(sn, SnapshotRow(eventRunId, frame.seq, data.type,
                   snap.filePath, snap.contentBefore, snap.contentAfter,
                   Bit(snap.existedBefore), Bit(snap.existsAfter), nowMs))
     ELSE sn

\* --------------------------------------------------- the ingest handler
isBackgroundLifecycleChange(data) ==
  data.type \in {"config_change", "setup_file_change"}

\* the session key of the frame after the background fallback
EventSessionKey(tr, frame) ==
  IF isBackgroundLifecycleChange(frame.data) /\ frame.sessionKey = Null
  THEN IF getLatestForkSessionKeyStmt(tr) # Null
       THEN getLatestForkSessionKeyStmt(tr)
       ELSE getLatestSessionKeyStmt(tr)
  ELSE frame.sessionKey

\* the run id of the frame after the background fallback
EventRunId(tr, frame) ==
  IF /\ isBackgroundLifecycleChange(frame.data)
     /\ frame.runId = UnknownRun
     /\ EventSessionKey(tr, frame) # Null
  THEN BgRunId(EventSessionKey(tr, frame), frame.ts, frame.seq)
  ELSE frame.runId

\* runLineage.get(eventRunId), created or completed with the session key
ResolveLineage(lin, heads, eventRunId, eventSessionKey) ==
  IF ~MapHas(lin, eventRunId)
  THEN LET explicitHead ==
             IF eventSessionKey # Null
             THEN MapGet(heads, eventSessionKey, NoRun) ELSE NoRun
           isHead == explicitHead # NoRun /\ explicitHead # eventRunId
       IN [isFork |-> Bit(isHead),
           forkedFromRunId |-> IF isHead THEN explicitHead ELSE NoRun,
           sessionKey |-> eventSessionKey]
  ELSE IF lin[eventRunId].sessionKey = Null /\ eventSessionKey # Null
  THEN [lin[eventRunId] EXCEPT !.sessionKey = eventSessionKey]
  ELSE lin[eventRunId]

\* the explicit head the frame's run is auto-promoted to, or NoRun
PromotionHead(tr, heads, lineage, eventRunId, eventSessionKey) ==
  LET effectiveSessionKey ==
        IF eventSessionKey # Null THEN eventSessionKey ELSE lineage.sessionKey
      explicitHead == MapGet(heads, effectiveSessionKey, NoRun)
  IN IF /\ lineage.isFork = 0
        /\ effectiveSessionKey # Null
        /\ explicitHead # NoRun
        /\ explicitHead # eventRunId
        /\ getRunEventCountStmt(tr, eventRunId) <= AUTO_PROMOTE_MAX_EVENTS
     THEN explicitHead
     ELSE NoRun

\* ws.on("message"): one frame of the tracer, processed to the end
Ingest(frame) ==
  LET eventSessionKey == EventSessionKey(traces, frame)
      eventRunId == EventRunId(traces, frame)
      lineage0 == ResolveLineage(runLineage, sessionForkHeads, eventRunId,
                                 eventSessionKey)
      head == PromotionHead(traces, sessionForkHeads, lineage0, eventRunId,
                            eventSessionKey)
      lineage == IF head = NoRun THEN lineage0
                 ELSE [isFork |-> 1, forkedFromRunId |-> head,
                       sessionKey |-> IF eventSessionKey # Null
                                      THEN eventSessionKey
                                      ELSE lineage0.sessionKey]
      tr1 == IF head = NoRun THEN traces
             ELSE markRunAsForkedStmt(traces, head, eventRunId)
      tr2 == Append(tr1, TraceRow(eventRunId, eventSessionKey, frame.seq,
                      frame.stream, frame.ts, frame.data, lineage.isFork,
                      lineage.forkedFromRunId, now))
      s2 == LinkState(tr2, pendingForks, linkedForkRuns,
                      MapSet(runLineage, eventRunId, lineage), sessionForkHeads)
      isNew == eventRunId \notin seenRuns /\ Len(pendingForks) > 0
      s3 == IF isNew THEN tryLinkFork(s2, eventRunId) ELSE s2
  IN /\ traces' = s3.traces
     /\ pendingForks' = s3.pendingForks
     /\ linkedForkRuns' = s3.linkedForkRuns
     /\ runLineage' = s3.runLineage
     /\ sessionForkHeads' = s3.sessionForkHeads
     /\ seenRuns' = IF isNew THEN seenRuns \cup {eventRunId} ELSE seenRuns
     /\ file_snapshots' = ExtractSnapshot(file_snapshots, eventRunId, frame, now)
     /\ stamped' =
          IF /\ eventSessionKey # Null
             /\ MapGet(sessionForkHeads, eventSessionKey, NoRun)
                  \notin {NoRun, eventRunId}
             /\ getRunEventCountStmt(traces, eventRunId)
                  <= AUTO_PROMOTE_MAX_EVENTS
          THEN MapSet(stamped, eventRunId,
                      MapGet(sessionForkHeads, eventSessionKey, NoRun))
          ELSE stamped
     /\ last' = [op |-> "ingest", run |-> eventRunId, sk |-> eventSessionKey,
                 frameRunId |-> frame.runId, frameSessionKey |-> frame.sessionKey,
                 type |-> frame.data.type,
                 count |-> getRunEventCountStmt(traces, eventRunId),
                 promoted |-> head, tried |-> isNew,
                 linked |-> s3.pendingForks # s2.pendingForks]

\* ws.on("message") for a frame whose seq is null: insertStmt.run throws on
\* the NOT NULL column, after the lineage of the run was resolved and the run
\* promoted; the catch logs the error and the handler ends
IngestThrows(frame) ==
  LET eventSessionKey == EventSessionKey(traces, frame)
      eventRunId == EventRunId(traces, frame)
      lineage0 == ResolveLineage(runLineage, sessionForkHeads, eventRunId,
                                 eventSessionKey)
      head == PromotionHead(traces, sessionForkHeads, lineage0, eventRunId,
                            eventSessionKey)
      lineage == IF head = NoRun THEN lineage0
                 ELSE [isFork |-> 1, forkedFromRunId |-> head,
                       sessionKey |-> IF eventSessionKey # Null
                                      THEN eventSessionKey
                                      ELSE lineage0.sessionKey]
  IN /\ frame.seq = Null
     /\ traces' = IF head = NoRun THEN traces
                  ELSE markRunAsForkedStmt(traces, head, eventRunId)
     /\ runLineage' = MapSet(runLineage, eventRunId, lineage)
     /\ last' = [op |-> "ingest_failed", run |-> eventRunId,
                 sk |-> eventSessionKey, promoted |-> head]
     /\ UNCHANGED <<configuredChannels, gwCall, file_snapshots, pendingForks,
                    linkedForkRuns, sessionForkHeads, seenRuns, seq,
                    lastSessionKey, now, disk, forks, gwSent, rewinds, tool,
                    stamped, fsHist>>

\* a client of the WebSocket sends a frame with seq: null
WsFrameWithoutSeq(runId, sessionKey) ==
  IngestThrows([runId |-> runId, sessionKey |-> sessionKey, seq |-> Null,
                stream |-> "assistant", ts |-> now,
                data |-> [type |-> "llm_input", prompt |-> "p",
                          fileSnapshot |-> NoSnap]])

\* ------------------------------------------------------ the rewind engine
RECURSIVE SortBySeq(_, _)
\* the rows of tr at the indices idx, ORDER BY seq ASC (ties in id order)
SortBySeq(tr, idx) ==
  IF idx = {} THEN <<>>
  ELSE LET m == CHOOSE i \in idx : \A j \in idx :
                  tr[i].seq < tr[j].seq \/ (tr[i].seq = tr[j].seq /\ i <= j)
       IN <<tr[m]>> \o SortBySeq(tr, idx \ {m})

\* SELECT * FROM file_snapshots WHERE run_id = ? AND seq <= ? ORDER BY seq ASC
getSnapshotsBeforeSeqStmt(sn, run, targetSeq) ==
  SortBySeq(sn, {i \in Indices(sn) : sn[i].run_id = run /\ sn[i].seq <= targetSeq})

\* SELECT * FROM traces WHERE run_id = ? AND seq < ? ORDER BY seq ASC
getTracesBeforeSeq(tr, run, beforeSeq) ==
  SortBySeq(tr, {i \in Indices(tr) : tr[i].run_id = run /\ tr[i].seq < beforeSeq})

\* computeRewindFileStates keeping the last snapshot of every file path
computeRewindFileStatesLast(snapshots) ==
  LET lastOf == {i \in Indices(snapshots) :
                   \A j \in (i + 1)..Len(snapshots) :
                      snapshots[j].file_path # snapshots[i].file_path}
  IN [k \in 1..Cardinality(lastOf) |->
        LET row == SelectIdx(snapshots, lastOf)[k]
        IN [originalContent |-> row.content_before,
            originalExisted |-> row.existed_before # 0,
            filePath |-> row.file_path]]

\* the Map of computeRewindFileStates, as the sequence of its values in
\* insertion order: the first snapshot of every file path
computeRewindFileStates(snapshots) ==
  LET first == {i \in Indices(snapshots) :
                  \A j \in 1..(i - 1) :
                     snapshots[j].file_path # snapshots[i].file_path}
  IN [k \in 1..Cardinality(first) |->
        LET row == SelectIdx(snapshots, first)[k]
        IN [originalContent |-> row.content_before,
            originalExisted |-> row.existed_before # 0,
            filePath |-> row.file_path]]

Absent == [exists |-> FALSE, content |-> ""]
File(content) == [exists |-> TRUE, content |-> content]

\* one iteration of the restore loop; failing files leave the disk alone
RewindResult(dk, state, failPaths) ==
  IF state.filePath \in failPaths
  THEN [filePath |-> state.filePath, action |-> "failed", success |-> FALSE]
  ELSE IF ~state.originalExisted
  THEN [filePath |-> state.filePath,
        action |-> IF dk[state.filePath].exists THEN "deleted"
                   ELSE "already_absent",
        success |-> TRUE]
  ELSE [filePath |-> state.filePath, action |-> "restored", success |-> TRUE]

RewindFile(dk, state, failPaths) ==
  IF state.filePath \in failPaths THEN dk
  ELSE IF ~state.originalExisted
  THEN [dk EXCEPT ![state.filePath] = Absent]
  ELSE [dk EXCEPT ![state.filePath] =
          File(IF state.originalContent = Null THEN ""
               ELSE state.originalContent)]

RECURSIVE RewindDisk(_, _, _)
RewindDisk(dk, states, failPaths) ==
  IF states = <<>> THEN dk
  ELSE RewindDisk(RewindFile(dk, Head(states), failPaths), Tail(states),
                  failPaths)

RECURSIVE RewindResultsStopAtFailure(_, _, _)
\* the restore loop leaving at the first file that fails
RewindResultsStopAtFailure(dk, states, failPaths) ==
  IF states = <<>> THEN <<>>
  ELSE IF Head(states).filePath \in failPaths
  THEN <<RewindResult(dk, Head(states), failPaths)>>
  ELSE <<RewindResult(dk, Head(states), failPaths)>> \o
       RewindResultsStopAtFailure(RewindFile(dk, Head(states), failPaths),
                                  Tail(states), failPaths)

RECURSIVE RewindResults(_, _, _)
RewindResults(dk, states, failPaths) ==
  IF states = <<>> THEN <<>>
  ELSE <<RewindResult(dk, Head(states), failPaths)>> \o
       RewindResults(RewindFile(dk, Head(states), failPaths), Tail(states),
                     failPaths)

NO_SNAPSHOTS_MESSAGE ==
  "No file snapshots found for this run up to the specified point."

\* rewindFilesToSeq without its early return for an empty snapshot set
rewindFilesToSeqNoEarlyReturn(sn, dk, runId, targetSeq, failPaths, nowMs) ==
  [success |-> TRUE, message |-> Null, filesAffected |-> 0, results |-> <<>>,
   backupId |-> nowMs, backups |-> <<>>, disk |-> dk]

\* rewindFilesToSeq: the result object and the disk it leaves.  failPaths are
\* the files whose unlink or write throws.
rewindFilesToSeq(sn, dk, runId, targetSeq, failPaths, nowMs) ==
  LET snapshots == getSnapshotsBeforeSeqStmt(sn, runId, targetSeq)
      fileStates == computeRewindFileStates(snapshots)
  IN IF Len(snapshots) = 0
     THEN [success |-> FALSE, message |-> NO_SNAPSHOTS_MESSAGE,
           filesAffected |-> 0, results |-> <<>>,
           backupId |-> -1, backups |-> <<>>, disk |-> dk]
     ELSE [success |-> TRUE, message |-> Null,
           filesAffected |-> Len(fileStates),
           results |-> RewindResults(dk, fileStates, failPaths),
           backupId |-> nowMs,
           backups |-> [k \in Indices(fileStates) |->
                          [filePath |-> fileStates[k].filePath,
                           currentContent |->
                             IF dk[fileStates[k].filePath].exists
                             THEN dk[fileStates[k].filePath].content ELSE Null,
                           currentExists |-> dk[fileStates[k].filePath].exists]],
           disk |-> RewindDisk(dk, fileStates, failPaths)]

\* ------------------------------------------------ delivery hint derivation
NoAddr == <<>>
NoHint == [channel |-> Null, to |-> <<>>, threadId |-> Null]
\* the channels of the OpenClaw config the daemon starts over
CONFIGURED_CHANNELS == {"telegram"}

\* the ":"-separated segments of the session keys of the model
SessionKeyParts(sessionKey) ==
  IF sessionKey = "S1" THEN <<"agent", "main", "telegram", "g1">>
  ELSE <<sessionKey>>

\* toLowerCase on the channel names of the model
Lower(str) == IF str = "Telegram" THEN "telegram" ELSE str

Part(parts, i) == IF i <= Len(parts) THEN parts[i] ELSE ""

\* an address string is the sequence of its ":"-separated segments
parseDeliveryHintFromAddress(address) ==
  IF address = NoAddr THEN NoHint
  ELSE LET channel == Lower(address[1])
           parts == Tail(address)
           joined == IF parts = <<"">> THEN NoHint
                     ELSE [channel |-> channel, to |-> parts, threadId |-> Null]
       IN IF channel = "" \/ parts = <<>> THEN NoHint
          ELSE IF channel = "telegram"
          THEN IF Part(parts, 1) = "group" /\ Part(parts, 2) # ""
               THEN [channel |-> channel, to |-> <<parts[2]>>,
                     threadId |-> IF Part(parts, 3) = "topic" /\ Part(parts, 4) # ""
                                  THEN parts[4] ELSE Null]
               ELSE IF Part(parts, 1) = "direct" /\ Part(parts, 2) # ""
               THEN [channel |-> channel, to |-> <<parts[2]>>, threadId |-> Null]
               ELSE joined
          ELSE joined

Field(d, k, dflt) == IF k \in DOMAIN d THEN d[k] ELSE dflt

extractDeliveryHintFromEventData(data) ==
  IF data.type = "message_received" /\ Field(data, "from", NoAddr) # NoAddr
  THEN parseDeliveryHintFromAddress(data.from)
  ELSE IF data.type = "message_sent" /\ Field(data, "to", NoAddr) # NoAddr
  THEN parseDeliveryHintFromAddress(data.to)
  ELSE NoHint

parseChannelFromSessionKey(sessionKey) ==
  IF sessionKey = Null THEN Null
  ELSE LET parts == SessionKeyParts(sessionKey)
       IN IF Len(parts) < 3 THEN Null
          ELSE IF Lower(parts[1]) # "agent" THEN Null
          ELSE IF Lower(parts[3]) = "" THEN Null ELSE Lower(parts[3])

matchesSessionChannel(hint, sessionChannel) ==
  IF hint = NoHint THEN FALSE
  ELSE IF sessionChannel = Null THEN TRUE
  ELSE hint.channel = sessionChannel

\* isConfiguredChannel without the lookup in CONFIGURED_CHANNELS
isConfiguredChannelPermissive(channel) == channel # Null /\ channel # ""

isConfiguredChannel(channel) ==
  IF channel = Null \/ channel = "" THEN FALSE
  ELSE IF configuredChannels = {} THEN TRUE
  ELSE Lower(channel) \in configuredChannels

\* rows is a sequence of data payloads; the loops run from the last row down
findPreferredHintFromRows(rows, sessionChannel) ==
  LET usable(ty, key) ==
        {i \in Indices(rows) :
           /\ ~Field(rows[i], "synthetic", FALSE)
           /\ rows[i].type = ty
           /\ Field(rows[i], key, NoAddr) # NoAddr
           /\ matchesSessionChannel(
                parseDeliveryHintFromAddress(rows[i][key]), sessionChannel)}
      lastOf(idx) == CHOOSE i \in idx : \A j \in idx : j <= i
  IN IF usable("message_received", "from") # {}
     THEN parseDeliveryHintFromAddress(
            rows[lastOf(usable("message_received", "from"))].from)
     ELSE IF usable("message_sent", "to") # {}
     THEN parseDeliveryHintFromAddress(
            rows[lastOf(usable("message_sent", "to"))].to)
     ELSE NoHint

RECURSIVE SortLatestFirst(_, _)
\* the rows of tr at the indices idx, ORDER BY ts DESC, seq DESC
SortLatestFirst(tr, idx) ==
  IF idx = {} THEN <<>>
  ELSE <<tr[LatestIdx(tr, idx)]>> \o
       SortLatestFirst(tr, idx \ {LatestIdx(tr, idx)})

LIFECYCLE_LIMIT == 200

\* SELECT data FROM traces WHERE session_key = ? AND stream = 'lifecycle'
\* ORDER BY ts DESC, seq DESC LIMIT 200
getRecentLifecycleEventsForSessionStmt(tr, sessionKey) ==
  LET all == SortLatestFirst(tr, {i \in Indices(tr) :
                 tr[i].session_key = sessionKey /\ tr[i].stream = "lifecycle"})
      kept == IF Len(all) > LIFECYCLE_LIMIT
              THEN SubSeq(all, 1, LIFECYCLE_LIMIT) ELSE all
  IN [i \in Indices(kept) |-> kept[i].data]

deriveForkDeliveryHint(tr, modifiedData, history, sessionKey) ==
  LET sessionChannel == parseChannelFromSessionKey(sessionKey)
      fromModified == extractDeliveryHintFromEventData(modifiedData)
      fromHistory == findPreferredHintFromRows(
                       [i \in Indices(history) |-> history[i].data],
                       sessionChannel)
      fromSession == findPreferredHintFromRows(
                       getRecentLifecycleEventsForSessionStmt(tr, sessionKey),
                       sessionChannel)
  IN IF /\ fromModified # NoHint
        /\ isConfiguredChannel(fromModified.channel)
        /\ matchesSessionChannel(fromModified, sessionChannel)
     THEN fromModified
     ELSE IF fromHistory # NoHint /\ isConfiguredChannel(fromHistory.channel)
     THEN fromHistory
     ELSE IF /\ sessionKey # Null
             /\ fromSession # NoHint
             /\ isConfiguredChannel(fromSession.channel)
     THEN fromSession
     ELSE NoHint

\* -------------------------------------------------------------- the tracer
NoTool == [runId |-> NoRun, sessionId |-> Null, filePath |-> Null,
           written |-> FALSE]

\* snapshotFile(filePath)
snapshotFile(dk, filePath) ==
  IF ~dk[filePath].exists THEN [content |-> "", exists |-> FALSE]
  ELSE [content |-> dk[filePath].content, exists |-> TRUE]

\* sendTrace(stream, data, runId, sessionKey) on an open socket, and the
\* daemon's handling of the frame
sendTrace(stream, data, runId, sessionKey) ==
  /\ seq' = seq + 1
  /\ lastSessionKey' = IF sessionKey # Null THEN sessionKey ELSE lastSessionKey
  /\ fsHist' = [fsHist EXCEPT !.diskAt = MapSet(@, seq + 1, disk)]
  /\ Ingest([runId |-> runId,
             sessionKey |-> IF sessionKey # Null THEN sessionKey
                            ELSE lastSessionKey,
             seq |-> seq + 1, stream |-> stream, ts |-> now, data |-> data])

FrameAddrs == {<<"telegram", "direct", "u1">>}

\* api.on("llm_input")
TracerLlmInput(runId, sessionId) ==
  /\ sendTrace("assistant",
               [type |-> "llm_input", prompt |-> "p", fileSnapshot |-> NoSnap],
               runId, sessionId)
  /\ UNCHANGED <<configuredChannels, gwCall, now, disk, forks, gwSent, rewinds, tool>>

\* api.on("message_received")
TracerMessageReceived(runId, sessionId, from) ==
  /\ sendTrace("lifecycle",
               [type |-> "message_received", from |-> from, content |-> "m",
                fileSnapshot |-> NoSnap],
               runId, sessionId)
  /\ UNCHANGED <<configuredChannels, gwCall, now, disk, forks, gwSent, rewinds, tool>>

\* api.on("before_tool_call") of a file-modifying tool
TracerToolStart(runId, sessionId, filePath) ==
  /\ tool = NoTool
  /\ sendTrace("tool",
               [type |-> "tool_call_start", toolName |-> "write",
                fileSnapshot |->
                  [filePath |-> filePath,
                   contentBefore |-> snapshotFile(disk, filePath).content,
                   existedBefore |-> snapshotFile(disk, filePath).exists,
                   contentAfter |-> Null, existsAfter |-> FALSE]],
               runId, sessionId)
  /\ tool' = [runId |-> runId, sessionId |-> sessionId, filePath |-> filePath,
              written |-> FALSE]
  /\ UNCHANGED <<configuredChannels, gwCall, now, disk, forks, gwSent, rewinds>>

\* the write tool of the agent runs between the two hooks
AgentWrite(content) ==
  /\ tool # NoTool /\ ~tool.written
  /\ disk[tool.filePath] # File(content)
  /\ disk' = [disk EXCEPT ![tool.filePath] = File(content)]
  /\ tool' = [tool EXCEPT !.written = TRUE]
  /\ last' = [op |-> "write", run |-> tool.runId]
  /\ fsHist' = [fsHist EXCEPT
                  !.wrote = @ \cup {[filePath |-> tool.filePath, after |-> seq]}]
  /\ UNCHANGED <<configuredChannels, gwCall, traces, file_snapshots, pendingForks, linkedForkRuns,
                 runLineage, sessionForkHeads, seenRuns, seq, lastSessionKey,
                 now, forks, gwSent, rewinds, stamped>>

\* api.on("after_tool_call") of a file-modifying tool
TracerToolEnd ==
  /\ tool # NoTool
  /\ sendTrace("tool",
               [type |-> "tool_call_end", toolName |-> "write",
                fileSnapshot |->
                  [filePath |-> tool.filePath,
                   contentBefore |-> Null, existedBefore |-> FALSE,
                   contentAfter |-> snapshotFile(disk, tool.filePath).content,
                   existsAfter |-> snapshotFile(disk, tool.filePath).exists]],
               tool.runId, tool.sessionId)
  /\ tool' = NoTool
  /\ UNCHANGED <<configuredChannels, gwCall, now, disk, forks, gwSent, rewinds>>

\* api.on("after_tool_call") when snapshotFile returns null (the file cannot
\* be read): the frame carries no fileSnapshot
TracerToolEndUnreadable ==
  /\ tool # NoTool
  /\ sendTrace("tool",
               [type |-> "tool_call_end", toolName |-> "write",
                fileSnapshot |-> NoSnap],
               tool.runId, tool.sessionId)
  /\ tool' = NoTool
  /\ UNCHANGED <<configuredChannels, gwCall, now, disk, forks, gwSent, rewinds>>

\* a frame of a file-change event that reaches the socket without run id and
\* session key; the file went from content X to Y
WsBackgroundFrame(type, filePath) ==
  /\ seq' = seq + 1
  /\ Ingest([runId |-> UnknownRun, sessionKey |-> Null, seq |-> seq + 1,
             stream |-> "lifecycle", ts |-> now,
             data |-> [type |-> type, filePath |-> filePath,
                       fileSnapshot |->
                         [filePath |-> filePath, contentBefore |-> "X",
                          existedBefore |-> TRUE, contentAfter |-> "Y",
                          existsAfter |-> TRUE]]])
  /\ UNCHANGED <<configuredChannels, gwCall, lastSessionKey, now, disk, forks, gwSent, rewinds, tool,
                 fsHist>>

\* a frame of a message event that is marked synthetic
WsSyntheticMessage(runId, sessionKey, from) ==
  /\ seq' = seq + 1
  /\ Ingest([runId |-> runId, sessionKey |-> sessionKey, seq |-> seq + 1,
             stream |-> "lifecycle", ts |-> now,
             data |-> [type |-> "message_received", from |-> from,
                       content |-> "m", synthetic |-> TRUE,
                       fileSnapshot |-> NoSnap]])
  /\ UNCHANGED <<configuredChannels, gwCall, lastSessionKey, now, disk, forks,
                 gwSent, rewinds, tool, fsHist>>

\* wss.on("connection"): the tracer reconnects and gets a fresh seenRuns
TracerReconnect ==
  /\ seenRuns # {}
  /\ seenRuns' = {}
  /\ last' = [op |-> "reconnect"]
  /\ UNCHANGED <<configuredChannels, gwCall, traces, file_snapshots, pendingForks, linkedForkRuns,
                 runLineage, sessionForkHeads, seq, lastSessionKey, now, disk, forks, gwSent, rewinds, tool,
                 stamped, fsHist>>

\* ------------------------------------------------------ POST /api/rewind
StoredRuns(tr) == {tr[i].run_id : i \in Indices(tr)}

PostRewind(runId, targetSeq, failPaths) ==
  LET rewindResult == rewindFilesToSeq(file_snapshots, disk, runId, targetSeq,
                                       failPaths, now)
  IN /\ rewinds' = rewinds + 1
     /\ disk' = rewindResult.disk
     /\ traces' =
          IF ~rewindResult.success THEN traces
          ELSE Append(traces,
                 TraceRow(runId, Null, REWIND_AUDIT_SEQ, "rewind", now,
                          [type |-> "rewind_executed", targetSeq |-> targetSeq,
                           backupId |-> rewindResult.backupId,
                           filesAffected |-> rewindResult.filesAffected,
                           results |-> rewindResult.results,
                           backups |-> rewindResult.backups],
                          0, NoRun, now))
     /\ last' = [op |-> "rewind", run |-> runId, targetSeq |-> targetSeq,
                 success |-> rewindResult.success,
                 message |-> rewindResult.message,
                 results |-> rewindResult.results, before |-> disk,
                 failPaths |-> failPaths,
                 previewed |-> /\ last.op = "preview" /\ last.run = runId
                               /\ last.targetSeq = targetSeq]
     /\ UNCHANGED <<configuredChannels, gwCall, file_snapshots, pendingForks, linkedForkRuns, runLineage,
                    sessionForkHeads, seenRuns, seq, lastSessionKey, now,
                    forks, gwSent, tool,
                 stamped, fsHist>>

\* ------------------------- GET /api/rewind/preview/:runId/:targetSeq
\* the preview listing every snapshot, without the fileStates.has test
PreviewFilesEverySnapshot(snapshots) ==
  [k \in Indices(snapshots) |->
     [filePath |-> snapshots[k].file_path,
      originalExisted |-> snapshots[k].existed_before # 0,
      action |-> IF snapshots[k].existed_before # 0 THEN "restore"
                 ELSE "delete"]]

\* the values of the route's fileStates Map, in insertion order: one entry
\* for the first snapshot of every file path
PreviewFiles(snapshots) ==
  LET first == {i \in Indices(snapshots) :
                  \A j \in 1..(i - 1) :
                     snapshots[j].file_path # snapshots[i].file_path}
  IN [k \in 1..Cardinality(first) |->
        LET row == SelectIdx(snapshots, first)[k]
        IN [filePath |-> row.file_path,
            originalExisted |-> row.existed_before # 0,
            action |-> IF row.existed_before # 0 THEN "restore" ELSE "delete"]]

\* the route: it reads the snapshots and answers
GetRewindPreview(runId, targetSeq) ==
  /\ last' = [op |-> "preview", run |-> runId, targetSeq |-> targetSeq,
              files |-> PreviewFiles(getSnapshotsBeforeSeqStmt(file_snapshots,
                                       runId, targetSeq))]
  /\ UNCHANGED <<configuredChannels, gwCall, traces, file_snapshots, pendingForks, linkedForkRuns,
                 runLineage, sessionForkHeads, seenRuns, seq, lastSessionKey,
                 now, disk, forks, gwSent, rewinds, tool, stamped, fsHist>>

\* -------------------------------------------------------- POST /api/fork
\* ForkPayload without the delete of the control flag
ForkPayloadKeepsFlag(modifiedData) == modifiedData

\* modifiedData without the control flag __forkedRewindFirst
ForkPayload(modifiedData) ==
  [k \in (DOMAIN modifiedData) \ {"__forkedRewindFirst"} |-> modifiedData[k]]

ForkControl(modifiedData) == Field(modifiedData, "__forkedRewindFirst", NoCtl)

\* the message to replay: the payload's, else the newest of the history,
\* else JSON.stringify(forkPayload)
ForkMessage(forkPayload, history) ==
  LET own == IF Field(forkPayload, "prompt", Null) # Null
             THEN forkPayload.prompt
             ELSE IF Field(forkPayload, "message", Null) # Null
             THEN forkPayload.message
             ELSE Field(forkPayload, "content", Null)
      usable == {i \in Indices(history) :
                   \/ /\ history[i].data.type = "message_received"
                      /\ Field(history[i].data, "content", Null) # Null
                   \/ /\ history[i].data.type = "llm_input"
                      /\ Field(history[i].data, "prompt", Null) # Null}
      newest == CHOOSE i \in usable : \A j \in usable : j <= i
  IN IF own # Null THEN own
     ELSE IF usable # {}
     THEN IF history[newest].data.type = "message_received"
          THEN history[newest].data.content ELSE history[newest].data.prompt
     ELSE "json"

\* the rows the handler inserts for the placeholder run before it registers
\* the pending fork
\* the placeholder run without its fork_info row
PlaceholderRowsNoForkInfo(newSessionId, sessionKey, originalRunId, forkFromSeq, forkPayload, forkMessage, forkStartedAt) ==
  << TraceRow(newSessionId, sessionKey, 1, "lifecycle", forkStartedAt + 1,
              [type |-> "message_received", source |-> "forked",
               content |-> forkMessage, timestamp |-> forkStartedAt,
               synthetic |-> TRUE],
              1, originalRunId, forkStartedAt) >>

PlaceholderRows(newSessionId, sessionKey, originalRunId, forkFromSeq, forkPayload, forkMessage, forkStartedAt) ==
  << TraceRow(newSessionId, sessionKey, 0, "fork_info", forkStartedAt,
              [type |-> "fork_info", originalRunId |-> originalRunId,
               forkFromSeq |-> forkFromSeq, modifiedData |-> forkPayload],
              1, originalRunId, forkStartedAt),
     TraceRow(newSessionId, sessionKey, 1, "lifecycle", forkStartedAt + 1,
              [type |-> "message_received", source |-> "forked",
               content |-> forkMessage, timestamp |-> forkStartedAt,
               synthetic |-> TRUE],
              1, originalRunId, forkStartedAt) >>

\* the audit row of a successful pre-fork rewind
ForkRewindRow(newSessionId, sessionKey, originalRunId, targetRunId, targetSeq, rewindResult, nowMs) ==
  TraceRow(newSessionId, sessionKey, 2, "rewind", nowMs,
           [type |-> "rewind_executed", targetRunId |-> targetRunId,
            targetSeq |-> targetSeq,
            filesAffected |-> rewindResult.filesAffected,
            results |-> rewindResult.results,
            backups |-> rewindResult.backups, synthetic |-> TRUE],
           1, originalRunId, nowMs)

\* the post-rewind apply step for an edited config_change payload
ApplyConfigEdit(dk, forkPayload) ==
  IF /\ Field(forkPayload, "type", Null) = "config_change"
     /\ Field(forkPayload, "filePath", Null) # Null
     /\ Field(forkPayload, "currentRaw", Null) # Null
  THEN [dk EXCEPT ![forkPayload.filePath] = File(forkPayload.currentRaw)]
  ELSE dk

\* mkdirSync or writeFileSync of the apply step throws: the file is one of
\* failPaths.  The handler's outer catch answers 500.
ApplyConfigThrows(forkPayload, failPaths) ==
  /\ Field(forkPayload, "type", Null) = "config_change"
  /\ Field(forkPayload, "filePath", Null) # Null
  /\ Field(forkPayload, "currentRaw", Null) # Null
  /\ forkPayload.filePath \in failPaths

\* The handler from its start to its first await (or to its 400 or 500
\* response).
\* The request arrives when the clock reads at.
ForkStart(originalRunId, forkFromSeq, modifiedData, failPaths, at) ==
  LET history == getTracesBeforeSeq(traces, originalRunId, forkFromSeq)
      newSessionId == NewSessionId(originalRunId, at)
      forkControl == ForkControl(modifiedData)
      forkPayload == ForkPayload(modifiedData)
      sessionKey == getRunSessionKeyStmt(traces, originalRunId)
      forkMessage == ForkMessage(forkPayload, history)
      deliveryHint == deriveForkDeliveryHint(traces, modifiedData, history,
                                             sessionKey)
      tr1 == traces \o PlaceholderRows(newSessionId, sessionKey, originalRunId,
                         forkFromSeq, forkPayload, forkMessage, at)
      targetRunId == IF forkControl.runId # NoRun THEN forkControl.runId
                     ELSE originalRunId
      targetSeq == IF forkControl.targetSeq # -1 THEN forkControl.targetSeq
                   ELSE forkFromSeq
      rewindResult == rewindFilesToSeq(file_snapshots, disk, targetRunId,
                                       targetSeq, failPaths, at)
      rewindFailed == forkControl # NoCtl /\ ~rewindResult.success
      applyThrew == /\ forkControl # NoCtl /\ rewindResult.success
                    /\ ApplyConfigThrows(forkPayload, failPaths)
      fork == [forkId |-> newSessionId, originalRunId |-> originalRunId,
               forkFromSeq |-> forkFromSeq, modifiedData |-> forkPayload,
               placeholderRunId |-> newSessionId, startedAt |-> at,
               sessionKey |-> sessionKey]
  IN /\ at >= now
     /\ now' = at
     /\ runLineage' = MapSet(runLineage, newSessionId,
                             [isFork |-> 1, forkedFromRunId |-> originalRunId,
                              sessionKey |-> sessionKey])
     /\ sessionForkHeads' = IF sessionKey # Null
                            THEN MapSet(sessionForkHeads, sessionKey, newSessionId)
                            ELSE sessionForkHeads
     /\ pendingForks' = IF rewindFailed
                        THEN PendingDelete(PendingSet(pendingForks, fork),
                                           newSessionId)
                        ELSE PendingSet(pendingForks, fork)
     /\ traces' = IF forkControl # NoCtl /\ rewindResult.success
                  THEN Append(tr1, ForkRewindRow(newSessionId, sessionKey,
                                     originalRunId, targetRunId, targetSeq,
                                     rewindResult, at))
                  ELSE tr1
     /\ disk' = IF forkControl = NoCtl THEN disk
                ELSE IF ~rewindResult.success \/ applyThrew
                THEN rewindResult.disk
                ELSE ApplyConfigEdit(rewindResult.disk, forkPayload)
     /\ forks' = Append(forks,
          [pc |-> IF rewindFailed \/ applyThrew THEN "done"
                  ELSE IF deliveryHint.channel = "telegram" THEN "echo"
                  ELSE "connect",
           status |-> IF rewindFailed THEN 400
                      ELSE IF applyThrew THEN 500 ELSE 0,
           success |-> FALSE,
           message |-> IF rewindFailed
                       THEN "Rewind failed before fork: " \o rewindResult.message
                       ELSE IF applyThrew THEN "Internal server error"
                       ELSE Null,
           awaitSince |-> at, postRunHint |-> NoHint,
           linked |-> FALSE,
           originalRunId |-> originalRunId, newSessionId |-> newSessionId,
           sessionKey |-> sessionKey, forkStartedAt |-> at,
           forkMessage |-> forkMessage, modifiedData |-> modifiedData,
           deliveryHint |-> deliveryHint, gatewayRunId |-> NoRun])
     /\ last' = [op |-> "fork_start", run |-> newSessionId,
                 origin |-> originalRunId, sk |-> sessionKey]
     /\ UNCHANGED <<configuredChannels, gwCall, file_snapshots, linkedForkRuns, seenRuns, seq,
                    lastSessionKey, gwSent, rewinds, tool,
                 stamped, fsHist>>

\* await sendForkEchoToGateway(forkEchoMessage, deliveryHint): it settles,
\* with the send request issued or not; a failure is caught and logged
ForkEchoDone(k, sent) ==
  /\ forks[k].pc = "echo"
  /\ forks' = [forks EXCEPT ![k].pc = "connect", ![k].awaitSince = now]
  /\ gwSent' = IF sent
               THEN Append(gwSent, [fork |-> k, method |-> "send",
                                    channel |-> forks[k].deliveryHint.channel])
               ELSE gwSent
  /\ last' = [op |-> "fork_echo", k |-> k]
  /\ UNCHANGED <<configuredChannels, gwCall, traces, file_snapshots, pendingForks, linkedForkRuns,
                 runLineage, sessionForkHeads, seenRuns, seq, lastSessionKey,
                 now, disk, rewinds, tool,
                 stamped, fsHist>>

\* sendToGateway: the connect response arrives and the agent request goes out
ForkAgentRequest(k) ==
  /\ forks[k].pc = "connect"
  /\ forks' = [forks EXCEPT ![k].pc = "agent"]
  /\ gwSent' = Append(gwSent, [fork |-> k, method |-> "agent",
                               channel |-> Null])
  /\ last' = [op |-> "fork_agent", k |-> k]
  /\ UNCHANGED <<configuredChannels, gwCall, traces, file_snapshots, pendingForks, linkedForkRuns,
                 runLineage, sessionForkHeads, seenRuns, seq, lastSessionKey,
                 now, disk, rewinds, tool,
                 stamped, fsHist>>

\* the catch block without pendingForks.delete(forkId)
ForkGatewayFailedKeepPending(k) ==
  /\ forks[k].pc \in {"connect", "agent"}
  /\ forks' = [forks EXCEPT ![k].pc = "done", ![k].status = 502,
                            ![k].success = FALSE,
                            ![k].message = "Gateway call failed"]
  /\ last' = [op |-> "fork_failed", k |-> k]
  /\ UNCHANGED <<configuredChannels, gwCall, traces, file_snapshots, pendingForks, linkedForkRuns,
                 runLineage, sessionForkHeads, seenRuns, seq, lastSessionKey,
                 now, disk, gwSent, rewinds, tool, stamped, fsHist>>

\* sendToGateway rejects (auth failure, rejection, timeout, close, error):
\* the catch block of the handler
ForkGatewayFailed(k) ==
  /\ forks[k].pc \in {"connect", "agent"}
  /\ pendingForks' = PendingDelete(pendingForks, forks[k].newSessionId)
  /\ forks' = [forks EXCEPT ![k].pc = "done", ![k].status = 502,
                            ![k].success = FALSE,
                            ![k].message = "Gateway call failed"]
  /\ last' = [op |-> "fork_failed", k |-> k]
  /\ UNCHANGED <<configuredChannels, gwCall, traces, file_snapshots, linkedForkRuns, runLineage,
                 sessionForkHeads, seenRuns, seq, lastSessionKey, now, disk, gwSent, rewinds, tool,
                 stamped, fsHist>>

\* the rows of the recent-run query of handler h: created after
\* forkStartedAt - 1 s, of its session key if it has one, and of neither the
\* placeholder nor the origin
RecentRows(tr, h) ==
  {i \in Indices(tr) :
     /\ tr[i].created_at > (h.forkStartedAt \div MS_PER_SECOND) - 1
     /\ h.sessionKey # Null => tr[i].session_key = h.sessionKey
     /\ tr[i].run_id # h.newSessionId
     /\ tr[i].run_id # h.originalRunId}

\* SELECT DISTINCT run_id ... ORDER BY created_at DESC LIMIT 5: the results
\* the query may return; runs of equal created_at come in any order
RecentRunOrders(tr, h) ==
  LET runs == {tr[i].run_id : i \in RecentRows(tr, h)}
      newest(r) == CHOOSE c \in {tr[i].created_at : i \in
                                   {j \in RecentRows(tr, h) : tr[j].run_id = r}} :
                     \A i \in RecentRows(tr, h) :
                        tr[i].run_id = r => tr[i].created_at <= c
      n == IF Cardinality(runs) > RECENT_RUNS_LIMIT THEN RECENT_RUNS_LIMIT
           ELSE Cardinality(runs)
  IN {q \in [1..n -> runs] :
        /\ \A i, j \in 1..n : i < j => q[i] # q[j] /\ newest(q[i]) >= newest(q[j])
        /\ \A r \in runs : \A i \in 1..n :
             (\A j \in 1..n : q[j] # r) => newest(q[i]) >= newest(r)}

RECURSIVE LinkRecentRuns(_, _, _)
\* for (const row of recentRuns) { if (!pendingForks.has(forkId)) break; ... }
LinkRecentRuns(s, forkId, recentRuns) ==
  IF recentRuns = <<>> \/ ~PendingHas(s.pendingForks, forkId) THEN s
  ELSE LinkRecentRuns(tryLinkFork(s, Head(recentRuns)), forkId,
                      Tail(recentRuns))

\* the linkage of the handler after the agent call, up to the clean-up
ForkLinkage(s, h, gatewayRunId, recentRuns) ==
  LET s1 == IF gatewayRunId # NoRun /\ PendingHas(s.pendingForks, h.newSessionId)
            THEN tryLinkFork(s, gatewayRunId) ELSE s
  IN IF PendingHas(s1.pendingForks, h.newSessionId)
     THEN LinkRecentRuns(s1, h.newSessionId, recentRuns)
     ELSE s1

\* the handler from the linkage to its 200 response
ForkFinish(k, gatewayRunId, recentRuns) ==
  LET h == forks[k]
      s == ForkLinkage(LinkState(traces, pendingForks, linkedForkRuns,
                                 runLineage, sessionForkHeads),
                       h, gatewayRunId, recentRuns)
      wasLinked == ~PendingHas(s.pendingForks, h.newSessionId)
  IN /\ traces' = s.traces
     /\ pendingForks' = PendingDelete(s.pendingForks, h.newSessionId)
     /\ linkedForkRuns' = s.linkedForkRuns
     /\ runLineage' = s.runLineage
     /\ sessionForkHeads' = s.sessionForkHeads
     /\ forks' = [forks EXCEPT ![k].pc = "done", ![k].status = 200,
                               ![k].success = TRUE,
                               ![k].message =
                                 IF wasLinked
                                 THEN "Forked run completed and linked."
                                 ELSE "Forked run completed (traces may still be arriving).",
                               ![k].linked = wasLinked]
     /\ last' = [op |-> "fork_finish", k |-> k, gatewayRunId |-> gatewayRunId,
                 recentRuns |-> recentRuns]

\* sendToGateway resolves with the final response; with a response text and
\* a hint the handler awaits the manual delivery before it links
ForkAgentDone(k, gatewayRunId, hasText) ==
  LET h == forks[k]
      postRunHint == IF h.deliveryHint # NoHint THEN h.deliveryHint
                     ELSE deriveForkDeliveryHint(traces, h.modifiedData, <<>>,
                                                 h.sessionKey)
  IN /\ h.pc = "agent"
     /\ IF hasText /\ postRunHint # NoHint
        THEN /\ forks' = [forks EXCEPT ![k].pc = "deliver",
                                       ![k].awaitSince = now,
                                       ![k].postRunHint = postRunHint,
                                       ![k].gatewayRunId = gatewayRunId]
             /\ last' = [op |-> "fork_agent_done", k |-> k]
             /\ UNCHANGED <<traces, pendingForks, linkedForkRuns, runLineage,
                            sessionForkHeads>>
        ELSE \E recentRuns \in RecentRunOrders(traces, h) :
                ForkFinish(k, gatewayRunId, recentRuns)
     /\ UNCHANGED <<configuredChannels, gwCall, file_snapshots, seenRuns, seq, lastSessionKey, now, disk, gwSent, rewinds, tool,
                 stamped, fsHist>>

\* await sendForkEchoToGateway(responseText, postRunHint) settles
ForkDeliverDone(k, sent) ==
  /\ forks[k].pc = "deliver"
  /\ gwSent' = IF sent
               THEN Append(gwSent, [fork |-> k, method |-> "send",
                                    channel |-> forks[k].postRunHint.channel])
               ELSE gwSent
  /\ \E recentRuns \in RecentRunOrders(traces, forks[k]) :
        ForkFinish(k, forks[k].gatewayRunId, recentRuns)
  /\ UNCHANGED <<configuredChannels, gwCall, file_snapshots, seenRuns, seq, lastSessionKey, now, disk, rewinds, tool,
                 stamped, fsHist>>

\* ------------------------------------------------- GET /api/traces/:id
\* SELECT DISTINCT run_id FROM traces WHERE session_key = ? OR (session_key
\* IS NULL AND run_id IN (SELECT DISTINCT run_id ... WHERE session_key = ?))
getRunIdsForSessionStmt(tr, key) ==
  {tr[i].run_id : i \in {j \in Indices(tr) : tr[j].session_key = key}}

RECURSIVE SortByTsSeq(_, _)
\* the rows of tr at the indices idx, ORDER BY ts ASC, seq ASC (ties in id
\* order)
SortByTsSeq(tr, idx) ==
  IF idx = {} THEN <<>>
  ELSE LET before(i, j) ==
             \/ tr[i].ts < tr[j].ts
             \/ tr[i].ts = tr[j].ts /\ tr[i].seq < tr[j].seq
             \/ tr[i].ts = tr[j].ts /\ tr[i].seq = tr[j].seq /\ i <= j
           m == CHOOSE i \in idx : \A j \in idx : before(i, j)
       IN <<tr[m]>> \o SortByTsSeq(tr, idx \ {m})

\* SELECT * FROM traces WHERE run_id = ? ORDER BY seq ASC
getTracesStmt(tr, run) ==
  SortBySeq(tr, {i \in Indices(tr) : tr[i].run_id = run})

\* the rows the route answers with
GetTraces(tr, sessionId) ==
  IF getRunIdsForSessionStmt(tr, sessionId) # {}
  THEN SortByTsSeq(tr, {i \in Indices(tr) :
                          tr[i].run_id \in getRunIdsForSessionStmt(tr, sessionId)})
  ELSE getTracesStmt(tr, TracerId(sessionId))

\* ------------------------------------------- GET /api/openclaw-config
\* Keys are sequences of characters.  A parsed config is the function from
\* the paths of its leaves (sequences of keys) to their values.
Key ==
  [ env |-> <<"e", "n", "v">>,
    apiKeyVar |-> <<"A", "P", "I", "_", "K", "E", "Y">>,
    gateway |-> <<"g", "a", "t", "e", "w", "a", "y">>,
    auth |-> <<"a", "u", "t", "h">>,
    token |-> <<"t", "o", "k", "e", "n">>,
    port |-> <<"p", "o", "r", "t">>,
    channels |-> <<"c", "h", "a", "n", "n", "e", "l", "s">>,
    telegram |-> <<"t", "e", "l", "e", "g", "r", "a", "m">>,
    botToken |-> <<"b", "o", "t", "T", "o", "k", "e", "n">>,
    accounts |-> <<"a", "c", "c", "o", "u", "n", "t", "s">>,
    main |-> <<"m", "a", "i", "n">>,
    models |-> <<"m", "o", "d", "e", "l", "s">>,
    providers |-> <<"p", "r", "o", "v", "i", "d", "e", "r", "s">>,
    openai |-> <<"o", "p", "e", "n", "a", "i">>,
    apiKey |-> <<"a", "p", "i", "K", "e", "y">>,
    skills |-> <<"s", "k", "i", "l", "l", "s">>,
    entries |-> <<"e", "n", "t", "r", "i", "e", "s">>,
    weather |-> <<"w", "e", "a", "t", "h", "e", "r">>,
    enabled |-> <<"e", "n", "a", "b", "l", "e", "d">> ]

REDACTED == "[REDACTED]"

\* the alternatives of /token|secret|key|password/
SENSITIVE_WORDS ==
  { <<"t", "o", "k", "e", "n">>, <<"s", "e", "c", "r", "e", "t">>,
    <<"k", "e", "y">>, <<"p", "a", "s", "s", "w", "o", "r", "d">> }

\* the flag i of the pattern: case folding of a character
ToLower(ch) ==
  LET lower == [A |-> "a", B |-> "b", E |-> "e", I |-> "i", K |-> "k",
                P |-> "p", S |-> "s", T |-> "t", Y |-> "y"]
  IN IF ch \in DOMAIN lower THEN lower[ch] ELSE ch

\* /token|secret|key|password/i.test(key): some alternative occurs in key
SensitiveKey(key) ==
  \E word \in SENSITIVE_WORDS :
     \E i \in 1..(Len(key) - Len(word) + 1) :
        \A j \in 1..Len(word) : ToLower(key[i + j - 1]) = word[j]

\* the property the handler overwrites: path q of the clone
Redacts(q) ==
  \/ Len(q) = 2 /\ q[1] = Key.env
  \/ q = <<Key.gateway, Key.auth, Key.token>>
  \/ Len(q) = 3 /\ q[1] = Key.channels /\ SensitiveKey(q[3])
  \/ Len(q) = 4 /\ q[1] = Key.skills /\ q[2] = Key.entries /\ SensitiveKey(q[4])

\* the path of the sanitized config the leaf at p ends up at: its shortest
\* overwritten prefix, or p
SanitizedPath(p) ==
  LET cuts == {n \in 1..Len(p) : Redacts(SubSeq(p, 1, n))}
  IN IF cuts = {} THEN p
     ELSE SubSeq(p, 1, CHOOSE n \in cuts : \A m \in cuts : n <= m)

\* the sanitized clone of a parsed config
Sanitize(config) ==
  [q \in {SanitizedPath(p) : p \in DOMAIN config} |->
     IF Redacts(q) THEN REDACTED ELSE config[q]]

OPENCLAW_CONFIG_PATH == "openclaw.json"

\* the route: it reads and parses the file and answers with the clone
GetOpenclawConfig ==
  /\ disk[OPENCLAW_CONFIG_PATH].exists
  /\ last' = [op |-> "openclaw_config", ok |-> TRUE,
              config |-> Sanitize(disk[OPENCLAW_CONFIG_PATH].content)]
  /\ UNCHANGED <<configuredChannels, gwCall, traces, file_snapshots, pendingForks, linkedForkRuns,
                 runLineage, sessionForkHeads, seenRuns, seq, lastSessionKey,
                 now, disk, forks, gwSent, rewinds, tool, stamped, fsHist>>

\* ------------------------------------------------------- specifications
Init ==
  /\ traces = <<>>
  /\ file_snapshots = <<>>
  /\ pendingForks = <<>>
  /\ linkedForkRuns = {}
  /\ runLineage = EmptyMap
  /\ sessionForkHeads = EmptyMap
  /\ seenRuns = {}
  /\ seq = 0
  /\ lastSessionKey = Null
  /\ now = 0
  /\ disk = [f \in Paths |-> IF f = "f" THEN File("X") ELSE Absent]
  /\ forks = <<>>
  /\ gwSent = <<>>
  /\ rewinds = 0
  /\ tool = NoTool
  /\ last = [op |-> "init"]
  /\ stamped = EmptyMap
  /\ fsHist = [diskAt |-> EmptyMap, wrote |-> {}]
  /\ configuredChannels = CONFIGURED_CHANNELS
  /\ gwCall = NoCall

SessionIds == Sessions \cup {Null}

\* the leaves a config file may hold
ConfigLeaves ==
  { <<Key.env, Key.apiKeyVar>>,
    <<Key.gateway, Key.auth, Key.token>>,
    <<Key.gateway, Key.port>>,
    <<Key.channels, Key.telegram, Key.botToken>>,
    <<Key.channels, Key.telegram, Key.enabled>>,
    <<Key.channels, Key.telegram, Key.accounts, Key.main, Key.botToken>>,
    <<Key.models, Key.providers, Key.openai, Key.apiKey>>,
    <<Key.skills, Key.entries, Key.weather, Key.apiKey>> }

\* the values of the leaves
ConfigValues == {"v1", "v2"}

\* the parsed contents of the config file: any of the leaves, the same value
\* throughout
ConfigFiles ==
  UNION {[leaves -> {v}] : leaves \in SUBSET ConfigLeaves, v \in ConfigValues}

\* the daemon started over a config file
ConfigInit ==
  /\ traces = <<>>
  /\ file_snapshots = <<>>
  /\ pendingForks = <<>>
  /\ linkedForkRuns = {}
  /\ runLineage = EmptyMap
  /\ sessionForkHeads = EmptyMap
  /\ seenRuns = {}
  /\ seq = 0
  /\ lastSessionKey = Null
  /\ now = 0
  /\ \E config \in ConfigFiles :
        disk = [f \in {OPENCLAW_CONFIG_PATH} |-> File(config)]
  /\ forks = <<>>
  /\ gwSent = <<>>
  /\ rewinds = 0
  /\ tool = NoTool
  /\ last = [op |-> "init"]
  /\ stamped = EmptyMap
  /\ fsHist = [diskAt |-> EmptyMap, wrote |-> {}]
  /\ configuredChannels = CONFIGURED_CHANNELS
  /\ gwCall = NoCall

ConfigNext == GetOpenclawConfig

ConfigSpec == ConfigInit /\ [][ConfigNext]_vars

RowSeqs(tr, run) == {tr[i].seq : i \in {j \in Indices(tr) : tr[j].run_id = run}}

LastSeq(tr, run) == CHOOSE n \in RowSeqs(tr, run) : \A m \in RowSeqs(tr, run) : m <= n

\* the payload the UI posts: the edited event data
EditedData == [type |-> "llm_input", prompt |-> "q"]

\* the same with the rewind-first control of the Fork modal
WithRewindFirst(modifiedData, runId, targetSeq) ==
  [k \in (DOMAIN modifiedData) \cup {"__forkedRewindFirst"} |->
     IF k = "__forkedRewindFirst"
     THEN [runId |-> runId, targetSeq |-> targetSeq]
     ELSE modifiedData[k]]

\* Lineage: the tracer reports the runs of one session, the UI forks stored
\* events a millisecond apart, the gateway answers the agent calls.
Next ==
  \/ /\ seq < MaxSeq
     /\ \E r \in TracerRuns : TracerLlmInput(r, "S1")
  \/ /\ Len(forks) < MaxForks
     /\ \E o \in StoredRuns(traces) :
          ForkStart(o, LastSeq(traces, o), EditedData, {}, now + 1)
  \/ \E k \in Indices(forks) : ForkAgentRequest(k)
  \/ \E k \in Indices(forks) : ForkGatewayFailed(k)
  \/ \E k \in Indices(forks), g \in TracerRuns \cup {NoRun} :
        ForkAgentDone(k, g, FALSE)

Spec == Init /\ [][Next]_vars

\* the same daemon with a tracer that reconnects
ConnNext ==
  \/ /\ seq < MaxSeq
     /\ \E r \in TracerRuns : TracerLlmInput(r, "S1")
  \/ TracerReconnect
  \/ /\ Len(forks) < MaxForks
     /\ \E o \in StoredRuns(traces) : ForkStart(o, LastSeq(traces, o), EditedData, {}, now + 1)
  \/ \E k \in Indices(forks) : ForkAgentRequest(k)
  \/ \E k \in Indices(forks) : ForkGatewayFailed(k)
  \/ \E k \in Indices(forks), g \in TracerRuns \cup {NoRun} : ForkAgentDone(k, g, FALSE)

ConnSpec == Init /\ [][ConnNext]_vars

\* the run ids a fork request may name at the time nowMs, stored or not:
\* req.body.originalRunId is any string, also one of the form
\* fork_fork_for_<ms>
RequestRunIds(tr, nowMs) ==
  StoredRuns(tr) \cup {[pre |-> "fork_fork_for", at |-> nowMs, n |-> -1]}

\* Tracer runs, and fork requests that name any run id.
AnyRunIdNext ==
  \/ /\ seq < MaxAnySeq
     /\ TracerLlmInput(TracerId("A"), "S1")
  \/ /\ Len(forks) < MaxAnyForks
     /\ \E o \in RequestRunIds(traces, now + 1) :
          ForkStart(o, 1, EditedData, {}, now + 1)
  \/ \E k \in Indices(forks) : ForkAgentRequest(k)
  \/ \E k \in Indices(forks) : ForkGatewayFailed(k)
  \/ \E k \in Indices(forks) : ForkAgentDone(k, NoRun, FALSE)

AnyRunIdSpec == Init /\ [][AnyRunIdNext]_vars

\* Tracer runs, forks, and frames the store rejects.
IngestFailNext ==
  \/ /\ seq < MaxIngestFailSeq
     /\ \E r \in TracerRuns : TracerLlmInput(r, "S1")
  \/ \E r \in TracerRuns : WsFrameWithoutSeq(r, "S1")
  \/ /\ Len(forks) < MaxIngestFailForks
     /\ \E o \in StoredRuns(traces) :
          ForkStart(o, LastSeq(traces, o), EditedData, {}, now + 1)
  \/ \E k \in Indices(forks) : ForkAgentRequest(k)
  \/ \E k \in Indices(forks) : ForkAgentDone(k, NoRun, FALSE)

IngestFailSpec == Init /\ [][IngestFailNext]_vars

\* Two conversations: run A of session S1, run B of session S2, and forks.
TwoSessionNext ==
  \/ /\ seq < MaxTwoSeq
     /\ TracerLlmInput(TracerId("A"), "S1")
  \/ /\ seq < MaxTwoSeq
     /\ TracerLlmInput(TracerId("B"), "S2")
  \/ /\ Len(forks) < MaxTwoForks
     /\ \E o \in StoredRuns(traces) :
          ForkStart(o, LastSeq(traces, o), EditedData, {}, now + 1)
  \/ \E k \in Indices(forks) : ForkAgentRequest(k)
  \/ \E k \in Indices(forks) : ForkAgentDone(k, NoRun, FALSE)

TwoSessionSpec == Init /\ [][TwoSessionNext]_vars

\* one long-lived run, the forks of it and of its forks, and reconnects of
\* the tracer
LongRunNext ==
  \/ /\ seq < MaxLongSeq
     /\ TracerLlmInput(TracerId("A"), "S1")
  \/ /\ Len(forks) < MaxForks
     /\ \E o \in StoredRuns(traces) :
          ForkStart(o, LastSeq(traces, o), EditedData, {}, now + 1)
  \/ \E k \in Indices(forks) : ForkAgentRequest(k)
  \/ \E k \in Indices(forks) : ForkAgentDone(k, NoRun, FALSE)
  \/ TracerReconnect

LongRunSpec == Init /\ [][LongRunNext]_vars

\* one run whose agent writes files between the tool hooks, and rewinds of it
RewindNext ==
  \/ /\ seq < MaxRewindSeq
     /\ TracerLlmInput(TracerId("A"), "S1")
  \/ /\ seq < MaxRewindSeq
     /\ \E f \in Paths : TracerToolStart(TracerId("A"), "S1", f)
  \/ \E c \in Contents : AgentWrite(c)
  \/ /\ seq < MaxRewindSeq
     /\ TracerToolEnd
  \/ /\ rewinds < MaxRewinds
     /\ \E r \in StoredRuns(traces), t \in 1..seq : PostRewind(r, t, {})
  \/ /\ rewinds < MaxRewinds
     /\ \E r \in StoredRuns(traces), t \in 1..seq : GetRewindPreview(r, t)

RewindSpec == Init /\ [][RewindNext]_vars

\* the addresses of the messages of HintSpec
HintAddrs ==
  { <<"telegram", "direct", "u1">>, <<"whatsapp", "u2">>,
    <<"Telegram", "group", "g1", "topic", "t1">> }

\* the address only synthetic messages carry
SyntheticAddr == <<"telegram", "direct", "forked">>

\* the payloads the UI posts in HintSpec
HintPayloads ==
  { EditedData,
    [type |-> "message_received", from |-> <<"telegram", "direct", "u1">>,
     content |-> "q"],
    [type |-> "message_received", from |-> <<"whatsapp", "u2">>,
     content |-> "q"],
    [type |-> "message_sent", to |-> <<"telegram", "direct", "u1">>,
     content |-> "q"],
    [type |-> "message_received", from |-> SyntheticAddr, content |-> "q",
     synthetic |-> TRUE] }

\* the daemon started over a config with one of the channel sets
HintInit ==
  /\ traces = <<>>
  /\ file_snapshots = <<>>
  /\ pendingForks = <<>>
  /\ linkedForkRuns = {}
  /\ runLineage = EmptyMap
  /\ sessionForkHeads = EmptyMap
  /\ seenRuns = {}
  /\ seq = 0
  /\ lastSessionKey = Null
  /\ now = 0
  /\ disk = [f \in Paths |-> IF f = "f" THEN File("X") ELSE Absent]
  /\ forks = <<>>
  /\ gwSent = <<>>
  /\ rewinds = 0
  /\ tool = NoTool
  /\ last = [op |-> "init"]
  /\ stamped = EmptyMap
  /\ fsHist = [diskAt |-> EmptyMap, wrote |-> {}]
  /\ configuredChannels \in {{}, {"telegram"}, {"whatsapp"}}
  /\ gwCall = NoCall

\* messages of a run of a session, real and synthetic, forks of its events
\* and their echo, agent call and delivery
HintNext ==
  \/ /\ seq < MaxHintSeq
     /\ \E sk \in Sessions, from \in HintAddrs :
          TracerMessageReceived(TracerId("A"), sk, from)
  \/ /\ seq < MaxHintSeq
     /\ \E sk \in Sessions :
          WsSyntheticMessage(TracerId("A"), sk, SyntheticAddr)
  \/ /\ Len(forks) < MaxHintForks
     /\ \E o \in StoredRuns(traces), data \in HintPayloads :
          ForkStart(o, LastSeq(traces, o), data, {}, now + 1)
  \/ \E k \in Indices(forks), sent \in BOOLEAN : ForkEchoDone(k, sent)
  \/ \E k \in Indices(forks) : ForkAgentRequest(k)
  \/ \E k \in Indices(forks), hasText \in BOOLEAN :
        ForkAgentDone(k, NoRun, hasText)
  \/ \E k \in Indices(forks), sent \in BOOLEAN : ForkDeliverDone(k, sent)

HintSpec == HintInit /\ [][HintNext]_vars

\* runs of two sessions, and file-change frames without run and session
BackgroundNext ==
  \/ /\ seq < MaxBgSeq
     /\ \E r \in TracerRuns, sk \in Sessions : TracerLlmInput(r, sk)
  \/ /\ seq < MaxBgSeq
     /\ \E type \in {"config_change", "setup_file_change"}, f \in Paths :
          WsBackgroundFrame(type, f)

BackgroundSpec == Init /\ [][BackgroundNext]_vars

\* the tool hooks of one run, with ends whose file cannot be read
SnapshotNext ==
  \/ /\ seq < MaxSnapSeq
     /\ \E f \in Paths : TracerToolStart(TracerId("A"), "S1", f)
  \/ \E c \in Contents : AgentWrite(c)
  \/ /\ seq < MaxSnapSeq
     /\ TracerToolEnd
  \/ /\ seq < MaxSnapSeq
     /\ TracerToolEndUnreadable

SnapshotSpec == Init /\ [][SnapshotNext]_vars

\* the same with files whose unlink or write fails during the rewind
RewindFailNext ==
  \/ /\ seq < MaxFailSeq
     /\ \E f \in Paths : TracerToolStart(TracerId("A"), "S1", f)
  \/ \E c \in Contents : AgentWrite(c)
  \/ /\ seq < MaxFailSeq
     /\ TracerToolEnd
  \/ /\ rewinds < MaxRewinds
     /\ \E r \in StoredRuns(traces), t \in 1..seq, failPaths \in SUBSET Paths :
          PostRewind(r, t, failPaths)

RewindFailSpec == Init /\ [][RewindFailNext]_vars

\* runs of one session whose agent touches a file, forks of them, and
\* rewinds of any stored run, fork runs included
AuditNext ==
  \/ /\ seq < MaxAuditSeq
     /\ TracerToolStart(TracerId("A"), "S1", "f")
  \/ /\ seq < MaxAuditSeq
     /\ TracerToolStart(TracerId("B"), "S1", "f")
  \/ /\ seq < MaxAuditSeq
     /\ TracerToolEnd
  \/ /\ Len(forks) < MaxAuditForks
     /\ \E o \in StoredRuns(traces) : ForkStart(o, LastSeq(traces, o), EditedData, {}, now + 1)
  \/ \E k \in Indices(forks) : ForkAgentRequest(k)
  \/ \E k \in Indices(forks) : ForkAgentDone(k, NoRun, FALSE)
  \/ /\ rewinds < MaxRewinds
     /\ \E r \in StoredRuns(traces), t \in 1..seq : PostRewind(r, t, {})

AuditSpec == Init /\ [][AuditNext]_vars

\* one run whose agent writes files, and forks of it with and without the
\* rewind-first control of the Fork modal
ForkRewindNext ==
  \/ /\ seq < MaxForkRewindSeq
     /\ TracerLlmInput(TracerId("A"), "S1")
  \/ /\ seq < MaxForkRewindSeq
     /\ TracerToolStart(TracerId("A"), "S1", "f")
  \/ \E c \in Contents : AgentWrite(c)
  \/ /\ seq < MaxForkRewindSeq
     /\ TracerToolEnd
  \/ /\ Len(forks) < MaxRewindForks
     /\ \E o \in StoredRuns(traces) :
          \/ ForkStart(o, LastSeq(traces, o), EditedData, {}, now + 1)
          \/ \E t \in RowSeqs(traces, o) :
               ForkStart(o, LastSeq(traces, o),
                         WithRewindFirst(EditedData, o, t), {}, now + 1)
  \/ \E k \in Indices(forks) : ForkAgentRequest(k)
  \/ \E k \in Indices(forks) : ForkAgentDone(k, NoRun, FALSE)

ForkRewindSpec == Init /\ [][ForkRewindNext]_vars

\* ------------------------------------------------------ timers and clock
FORK_ECHO_TIMEOUT_MS == 30000
GATEWAY_TIMEOUT_MS == 120000
PENDING_FORK_TTL_MS == 300000
REAPER_INTERVAL_MS == 60000

\* the step of the clock
TickMs == REAPER_INTERVAL_MS \div 2

\* the time at which the timer of the await of handler h rejects it
Deadline(h) ==
  IF h.pc \in {"echo", "deliver"} THEN h.awaitSince + FORK_ECHO_TIMEOUT_MS
  ELSE h.awaitSince + GATEWAY_TIMEOUT_MS

\* the interval timer of the reaper is due and has not run yet
ReaperDue == last.op = "tick" /\ now % REAPER_INTERVAL_MS = 0

\* Time passes.  A timer fires when it is due: the clock does not pass the
\* deadline of a handler that still awaits, nor a run of the reaper.
Tick ==
  /\ ~ReaperDue
  /\ \A k \in Indices(forks) :
        forks[k].pc # "done" => now + TickMs <= Deadline(forks[k])
  /\ now' = now + TickMs
  /\ last' = [op |-> "tick"]
  /\ UNCHANGED <<configuredChannels, gwCall, traces, file_snapshots, pendingForks, linkedForkRuns,
                 runLineage, sessionForkHeads, seenRuns, seq, lastSessionKey,
                 disk, forks, gwSent, rewinds, tool, stamped, fsHist>>

\* the pending forks the reaper keeps: those not started before the cutoff
ReapPending(pend, nowMs) ==
  SelectSeq(pend, LAMBDA fork : ~(fork.startedAt < nowMs - PENDING_FORK_TTL_MS))

\* setInterval(() => { ... pendingForks.delete(forkId) ... }, 60_000)
ExpirePendingForks ==
  /\ ReaperDue
  /\ pendingForks' = ReapPending(pendingForks, now)
  /\ last' = [op |-> "reaper",
              expired |-> Len(pendingForks) - Len(ReapPending(pendingForks, now))]
  /\ UNCHANGED <<configuredChannels, gwCall, traces, file_snapshots, linkedForkRuns, runLineage,
                 sessionForkHeads, seenRuns, seq, lastSessionKey, now, disk,
                 forks, gwSent, rewinds, tool, stamped, fsHist>>

\* the payload of the Fork modal for an edited config file
ConfigEdit == [type |-> "config_change", filePath |-> "f", currentRaw |-> "Y"]

\* The daemon under a clock: a tracer whose agent touches a file, a run that
\* starts at some time, fork requests with and without the rewind-first
\* control (whose apply step may throw), the gateway, and the reaper.
TimedNext ==
  \/ /\ now < MaxTicks * TickMs
     /\ Tick
  \/ ExpirePendingForks
  \/ /\ ~ReaperDue
     /\ seq < MaxTimedSeq
     /\ TracerToolStart(TracerId("A"), "S1", "f")
  \/ /\ ~ReaperDue
     /\ seq < MaxTimedSeq
     /\ TracerLlmInput(TracerId("B"), "S1")
  \/ /\ ~ReaperDue
     /\ Len(forks) < MaxTimedForks
     /\ \A k \in Indices(forks) : forks[k].forkStartedAt # now
     /\ \E o \in StoredRuns(traces) :
          ForkStart(o, LastSeq(traces, o), EditedData, {}, now)
  \/ /\ ~ReaperDue
     /\ Len(forks) < MaxTimedForks
     /\ \A k \in Indices(forks) : forks[k].forkStartedAt # now
     /\ \E o \in StoredRuns(traces), failPaths \in {{}, {"f"}} :
          ForkStart(o, LastSeq(traces, o),
                    WithRewindFirst(ConfigEdit, o, LastSeq(traces, o)),
                    failPaths, now)
  \/ /\ ~ReaperDue
     /\ \E k \in Indices(forks) : ForkAgentRequest(k)
  \/ /\ ~ReaperDue
     /\ \E k \in Indices(forks) : ForkGatewayFailed(k)
  \/ /\ ~ReaperDue
     /\ \E k \in Indices(forks) : ForkAgentDone(k, NoRun, FALSE)

TimedSpec == Init /\ [][TimedNext]_vars

\* ------------------------------------------------------ retention sweep
\* let retentionDays = 14
RETENTION_DAYS == 14
SECONDS_PER_DAY == 86400
\* the clock is sampled once per week
WeekMs == 7 * SECONDS_PER_DAY * MS_PER_SECOND

\* DELETE FROM traces / file_snapshots
\*   WHERE created_at < datetime('now', '-' || ? || ' days')
deleteOldStmt(rows, days, nowMs) ==
  SelectSeq(rows, LAMBDA row : ~(row.created_at < (nowMs \div MS_PER_SECOND) - days * SECONDS_PER_DAY))

\* function runCleanup(): the hourly sweep; the in-memory maps are untouched
runCleanup ==
  /\ RETENTION_DAYS >= 0
  /\ traces' = deleteOldStmt(traces, RETENTION_DAYS, now)
  /\ file_snapshots' = deleteOldStmt(file_snapshots, RETENTION_DAYS, now)
  /\ last' = [op |-> "cleanup", removed |-> Len(traces) - Len(traces')]
  /\ UNCHANGED <<configuredChannels, gwCall, pendingForks, linkedForkRuns,
                 runLineage, sessionForkHeads, seenRuns, seq, lastSessionKey,
                 now, disk, forks, gwSent, rewinds, tool, stamped, fsHist>>

\* A week passes with no request in progress; the reaper has run meanwhile.
WeekPasses ==
  /\ \A k \in Indices(forks) : forks[k].pc = "done"
  /\ now' = now + WeekMs
  /\ pendingForks' = ReapPending(pendingForks, now')
  /\ last' = [op |-> "week"]
  /\ UNCHANGED <<configuredChannels, gwCall, traces, file_snapshots,
                 linkedForkRuns, runLineage, sessionForkHeads, seenRuns, seq,
                 lastSessionKey, disk, forks, gwSent, rewinds, tool, stamped,
                 fsHist>>

\* tracer runs, forks of stored runs, and the retention sweep over the weeks
SweepNext ==
  \/ /\ seq < MaxSweepSeq
     /\ \E r \in TracerRuns : TracerLlmInput(r, "S1")
  \/ /\ Len(forks) < MaxSweepForks
     /\ \E o \in StoredRuns(traces) : ForkStart(o, LastSeq(traces, o), EditedData, {}, now + 1)
  \/ \E k \in Indices(forks) : ForkAgentRequest(k)
  \/ \E k \in Indices(forks) : ForkAgentDone(k, NoRun, FALSE)
  \/ /\ now < MaxWeeks * WeekMs
     /\ WeekPasses
  \/ runCleanup

SweepSpec == Init /\ [][SweepNext]_vars

\* ------------------------------------------------- GET /api/traces/:id
\* app.get("/api/traces/:sessionId"): the rows of the answer
GetTracesRoute(sessionId) ==
  /\ last' = [op |-> "get_traces", sessionId |-> sessionId,
               runIdRows |-> getRunIdsForSessionStmt(traces, sessionId),
               rows |-> GetTraces(traces, sessionId)]
  /\ UNCHANGED <<configuredChannels, gwCall, traces, file_snapshots,
                 pendingForks, linkedForkRuns, runLineage, sessionForkHeads,
                 seenRuns, seq, lastSessionKey, now, disk, forks, gwSent,
                 rewinds, tool, stamped, fsHist>>

\* One run of a tracer, rewinds of it, the clock, and the route.
FetchNext ==
  \/ /\ now < MaxFetchTicks * TickMs
     /\ Tick
  \/ ExpirePendingForks
  \/ /\ ~ReaperDue
     /\ seq < MaxFetchSeq
     /\ TracerLlmInput(TracerId("A"), "S1")
  \/ /\ ~ReaperDue
     /\ seq < MaxFetchSeq
     /\ TracerToolStart(TracerId("A"), "S1", "f")
  \/ /\ ~ReaperDue
     /\ seq < MaxFetchSeq
     /\ TracerToolEnd
  \/ /\ ~ReaperDue
     /\ rewinds < MaxRewinds
     /\ \E r \in StoredRuns(traces), t \in 1..seq : PostRewind(r, t, {})
  \/ /\ ~ReaperDue
     /\ \E id \in {"A", "S1"} : GetTracesRoute(id)

FetchSpec == Init /\ [][FetchNext]_vars

\* ------------------------------------------------ the UI's lane tree
\* const MAIN_BRANCH = "__main__"
MAIN_BRANCH == TracerId("__main__")

\* the RunNode of every run of the events: parentRunId is the parent of the
\* first event, in (ts, seq, id) order, that has one (the session row's
\* MAX(forked_from_run_id) aggregates the same rows and adds nothing);
\* hasForkInfo is getForkMetadata(sortedEvents).hasForkInfo
RunNodes(events) ==
  [r \in {events[i].run_id : i \in Indices(events)} |->
     LET sortedEvents == SortByTsSeq(events, {i \in Indices(events) :
                                                events[i].run_id = r})
         stamped_ == {i \in Indices(sortedEvents) :
                        sortedEvents[i].forked_from_run_id # NoRun}
         parentRunId ==
           IF stamped_ = {} THEN NoRun
           ELSE sortedEvents[CHOOSE i \in stamped_ : \A j \in stamped_ : i <= j]
                  .forked_from_run_id
     IN [parentRunId |-> parentRunId,
         isFork |-> \/ \E i \in Indices(sortedEvents) : sortedEvents[i].is_fork = 1
                    \/ parentRunId # NoRun,
         hasForkInfo |-> \E i \in Indices(sortedEvents) :
                            sortedEvents[i].stream = "fork_info"]]

RECURSIVE nearestExplicitAncestor(_, _, _)
\* the walk up the parents from cursor; NoRun is the null of the source
nearestExplicitAncestor(runs, cursor, seen) ==
  IF cursor = NoRun \/ cursor \in seen \/ cursor \notin DOMAIN runs THEN NoRun
  ELSE IF runs[cursor].hasForkInfo THEN cursor
  ELSE nearestExplicitAncestor(runs, runs[cursor].parentRunId, seen \cup {cursor})

\* nearestExplicitAncestor(node.parentRunId) ?? MAIN_BRANCH
ParentBranch(runs, r) ==
  IF nearestExplicitAncestor(runs, runs[r].parentRunId, {}) = NoRun
  THEN MAIN_BRANCH
  ELSE nearestExplicitAncestor(runs, runs[r].parentRunId, {})

\* the branch the events of run r are pushed to
BranchKey(runs, r) ==
  IF runs[r].hasForkInfo THEN r
  ELSE IF runs[r].isFork THEN ParentBranch(runs, r)
  ELSE MAIN_BRANCH

\* childrenByBranch.get(branch)
ChildrenByBranch(runs, branch) ==
  {r \in DOMAIN runs : runs[r].hasForkInfo /\ ParentBranch(runs, r) = branch}

RECURSIVE buildExplicitLane(_, _, _)
\* the lanes of the subtree built for runId: the lane itself and, unless it
\* was visited on the way down, the subtrees of its children
buildExplicitLane(runs, runId, visited) ==
  IF runId \in visited THEN {runId}
  ELSE {runId} \cup
       UNION {buildExplicitLane(runs, child, visited \cup {runId}) :
                child \in ChildrenByBranch(runs, runId)}

\* buildLaneTree(sessionId, events, ...): the branch of every run and the
\* lanes of the tree under the Main Timeline
buildLaneTree(events) ==
  LET runs == RunNodes(events)
  IN [branchOf |-> [r \in DOMAIN runs |-> BranchKey(runs, r)],
      explicitRuns |-> {r \in DOMAIN runs : runs[r].hasForkInfo},
      lanes |-> {MAIN_BRANCH} \cup
                UNION {buildExplicitLane(runs, child, {}) :
                         child \in ChildrenByBranch(runs, MAIN_BRANCH)}]

\* the UI loads the traces of the session and builds its lanes
UiTimeline(sessionId) ==
  /\ GetTraces(traces, sessionId) # <<>>
  /\ last' = [op |-> "lanes", sessionId |-> sessionId,
               tree |-> buildLaneTree(GetTraces(traces, sessionId))]
  /\ UNCHANGED <<configuredChannels, gwCall, traces, file_snapshots,
                 pendingForks, linkedForkRuns, runLineage, sessionForkHeads,
                 seenRuns, seq, lastSessionKey, now, disk, forks, gwSent,
                 rewinds, tool, stamped, fsHist>>

\* One tracer run, forks of it and of its forks, and the UI.
LaneNext ==
  \/ /\ seq < MaxLaneSeq
     /\ TracerLlmInput(TracerId("A"), "S1")
  \/ /\ Len(forks) < MaxLaneForks
     /\ \E o \in StoredRuns(traces) :
          ForkStart(o, LastSeq(traces, o), EditedData, {}, now + 1)
  \/ \E k \in Indices(forks) : ForkAgentRequest(k)
  \/ \E k \in Indices(forks) : ForkAgentDone(k, NoRun, FALSE)
  \/ UiTimeline("S1")

LaneSpec == Init /\ [][LaneNext]_vars

\* ------------------------------------------------------- gateway calls
\* crypto.randomUUID(): the ids of the connect request and of the request
ConnectId == "connect-id"
RequestId == "request-id"

\* the frames the gateway may send: res frames with any id, ok, error and
\* payload.status, an event frame, and a frame that is not JSON
GatewayFrames ==
  { [type |-> "res", id |-> i, ok |-> o, error |-> e, status |-> st] :
      i \in {ConnectId, RequestId, "other-id"}, o \in {"true", "false", Null},
      e \in {Null, "denied"}, st \in {Null, "accepted", "ok"} }
  \cup { [type |-> t, id |-> Null, ok |-> Null, error |-> Null, status |-> Null] :
           t \in {"event", "not-json"} }

\* FrameFailed for a gateway whose responses are all taken as successes
FrameFailedNever(frame) == FALSE

\* TimeoutOf with the timer of every call set to 150 s
TimeoutOfLate(kind) == GATEWAY_TIMEOUT_MS + FORK_ECHO_TIMEOUT_MS

\* frame.ok === false || frame.error
FrameFailed(frame) == frame.ok = "false" \/ frame.error # Null

\* setTimeout(..., 120_000) of sendToGateway, 30_000 of sendForkEchoToGateway
TimeoutOf(kind) ==
  IF kind = "send" THEN FORK_ECHO_TIMEOUT_MS ELSE GATEWAY_TIMEOUT_MS

\* resolved = true; clearTimeout(timeoutId); [gwWs.close();] resolve / reject
Settle(call, outcome, message, closes, nowMs) ==
  [call EXCEPT !.resolved = TRUE, !.timer = FALSE, !.outcome = outcome,
               !.message = message, !.settledAt = nowMs,
               !.socket = IF closes THEN "closed" ELSE @]

\* the connect response: authenticated = true and the request goes out
Authenticate(call) ==
  [call EXCEPT !.authenticated = TRUE, !.reqId = RequestId,
               !.sent = Append(@, [method |-> call.kind, id |-> RequestId])]

\* sendToGatewayOnMessage without the test of resolved
sendToGatewayOnMessageUnguarded(call, frame, nowMs) ==
  IF frame.type = "not-json" THEN call
  ELSE IF frame.type = "res" /\ ~call.authenticated
  THEN IF FrameFailed(frame)
       THEN Settle(call, "rejected", "Gateway auth failed", TRUE, nowMs)
       ELSE Authenticate(call)
  ELSE IF frame.type = "res" /\ call.authenticated
  THEN IF FrameFailed(frame)
       THEN Settle(call, "rejected", "Gateway agent error", TRUE, nowMs)
       ELSE IF frame.status = "accepted" THEN call
       ELSE Settle(call, "resolved", "final response", TRUE, nowMs)
  ELSE call

\* gwWs.on("message") of sendToGateway
sendToGatewayOnMessage(call, frame, nowMs) ==
  IF call.resolved \/ frame.type = "not-json" THEN call
  ELSE IF frame.type = "res" /\ ~call.authenticated
  THEN IF FrameFailed(frame)
       THEN Settle(call, "rejected", "Gateway auth failed", TRUE, nowMs)
       ELSE Authenticate(call)
  ELSE IF frame.type = "res" /\ call.authenticated
  THEN IF FrameFailed(frame)
       THEN Settle(call, "rejected", "Gateway agent error", TRUE, nowMs)
       ELSE IF frame.status = "accepted" THEN call
       ELSE Settle(call, "resolved", "final response", TRUE, nowMs)
  ELSE call

\* gwWs.on("message") of sendForkEchoToGateway
sendForkEchoToGatewayOnMessage(call, frame, nowMs) ==
  IF call.resolved \/ frame.type = "not-json" THEN call
  ELSE IF frame.type = "res" /\ ~call.authenticated
  THEN IF FrameFailed(frame)
       THEN Settle(call, "rejected", "Gateway auth failed", TRUE, nowMs)
       ELSE Authenticate(call)
  ELSE IF frame.type = "res" /\ call.authenticated /\ frame.id = call.reqId
  THEN IF FrameFailed(frame)
       THEN Settle(call, "rejected", "Gateway send error", TRUE, nowMs)
       ELSE Settle(call, "resolved", "ok", TRUE, nowMs)
  ELSE call

GatewayUnchanged ==
  UNCHANGED <<configuredChannels, traces, file_snapshots, pendingForks,
              linkedForkRuns, runLineage, sessionForkHeads, seenRuns, seq,
              lastSessionKey, disk, forks, gwSent, rewinds, tool, stamped,
              fsHist>>

\* sendToGateway(...) / sendForkEchoToGateway(...): new WebSocket and the
\* timer; a send without a target or a message resolves at once as skipped
GatewayCall(kind, hasTarget) ==
  /\ gwCall.kind = Null \/ gwCall.resolved
  /\ gwCall.n < MaxCalls
  /\ kind = "agent" => hasTarget
  /\ now + TimeoutOf(kind) <= MaxGwTicks * TickMs
  /\ gwCall' =
       IF hasTarget
       THEN [NoCall EXCEPT !.kind = kind, !.n = gwCall.n + 1, !.startedAt = now,
                           !.socket = "connecting", !.timer = TRUE]
       ELSE [NoCall EXCEPT !.kind = kind, !.n = gwCall.n + 1, !.startedAt = now,
                           !.resolved = TRUE, !.outcome = "resolved",
                           !.message = "skipped", !.settledAt = now]
  /\ last' = [op |-> "gw_call"]
  /\ UNCHANGED now
  /\ GatewayUnchanged

\* gwWs.on("open"): the connect request
GatewayOpen ==
  /\ gwCall.socket = "connecting"
  /\ gwCall' = [gwCall EXCEPT !.socket = "open",
                 !.sent = Append(@, [method |-> "connect", id |-> ConnectId])]
  /\ last' = [op |-> "gw_open"]
  /\ UNCHANGED now
  /\ GatewayUnchanged

\* gwWs.on("message")
GatewayMessage(frame) ==
  /\ gwCall.socket = "open"
  /\ gwCall' = IF gwCall.kind = "agent"
               THEN sendToGatewayOnMessage(gwCall, frame, now)
               ELSE sendForkEchoToGatewayOnMessage(gwCall, frame, now)
  /\ last' = [op |-> "gw_message", frame |-> frame]
  /\ UNCHANGED now
  /\ GatewayUnchanged

\* gwWs.on("error") and gwWs.on("close"): the socket fails or the gateway
\* closes it
GatewayLost(event) ==
  /\ gwCall.socket \in {"connecting", "open"}
  /\ gwCall' = [Settle(gwCall, "rejected", event, FALSE, now)
                  EXCEPT !.socket = "closed"]
  /\ last' = [op |-> event]
  /\ UNCHANGED now
  /\ GatewayUnchanged

\* the callback of setTimeout
GatewayTimeout ==
  /\ gwCall.timer
  /\ now >= gwCall.startedAt + TimeoutOf(gwCall.kind)
  /\ gwCall' = IF gwCall.resolved THEN [gwCall EXCEPT !.timer = FALSE]
               ELSE Settle(gwCall, "rejected", "timed out", TRUE, now)
  /\ last' = [op |-> "gw_timeout"]
  /\ UNCHANGED now
  /\ GatewayUnchanged

\* Time passes; the timer of the call fires when it is due.
GatewayTick ==
  /\ now + TickMs <= MaxGwTicks * TickMs
  /\ gwCall.timer => now + TickMs <= gwCall.startedAt + TimeoutOf(gwCall.kind)
  /\ now' = now + TickMs
  /\ last' = [op |-> "tick"]
  /\ UNCHANGED gwCall
  /\ GatewayUnchanged

GatewayNext ==
  \/ \E kind \in {"agent", "send"}, hasTarget \in BOOLEAN : GatewayCall(kind, hasTarget)
  \/ GatewayOpen
  \/ \E frame \in GatewayFrames : GatewayMessage(frame)
  \/ \E event \in {"gw_error", "gw_close"} : GatewayLost(event)
  \/ GatewayTimeout
  \/ GatewayTick

GatewaySpec == Init /\ [][GatewayNext]_vars

\* the event loop runs a timer that is due, and time passes
GatewayLiveSpec ==
  GatewaySpec /\ WF_vars(GatewayTick) /\ WF_vars(GatewayTimeout)

\* gwWs.on("close") of both calls
GatewayOnClose(call, nowMs) ==
  IF call.resolved THEN call
  ELSE Settle(call, "rejected", "gw_close", FALSE, nowMs)

\* gwWs.close() was called by a handler or by the timer: the closing
\* handshake is in progress, and a frame the gateway had already sent
\* reaches gwWs.on("message")
GatewayLateMessage(frame) ==
  /\ gwCall.socket = "closed" /\ ~gwCall.closeEmitted
  /\ gwCall.message \notin {"gw_error", "gw_close"}
  /\ gwCall.sent # <<>>
  /\ gwCall' = IF gwCall.kind = "agent"
               THEN sendToGatewayOnMessage(gwCall, frame, now)
               ELSE sendForkEchoToGatewayOnMessage(gwCall, frame, now)
  /\ last' = [op |-> "gw_late_message", frame |-> frame]
  /\ UNCHANGED now
  /\ GatewayUnchanged

\* the "close" event that follows gwWs.close() or an "error" event
GatewayLateClose ==
  /\ gwCall.socket = "closed" /\ ~gwCall.closeEmitted
  /\ gwCall.message # "gw_close"
  /\ gwCall' = [GatewayOnClose(gwCall, now) EXCEPT !.closeEmitted = TRUE]
  /\ last' = [op |-> "gw_late_close"]
  /\ UNCHANGED now
  /\ GatewayUnchanged

\* the gateway call with the events that follow its settlement
GatewayLateNext ==
  \/ \E kind \in {"agent", "send"}, hasTarget \in BOOLEAN : GatewayCall(kind, hasTarget)
  \/ GatewayOpen
  \/ \E frame \in GatewayFrames : GatewayMessage(frame)
  \/ \E event \in {"gw_error", "gw_close"} : GatewayLost(event)
  \/ GatewayTimeout
  \/ GatewayTick
  \/ \E frame \in GatewayFrames : GatewayLateMessage(frame)
  \/ GatewayLateClose

GatewayLateSpec == Init /\ [][GatewayLateNext]_vars

\* ================================================================ lineage
\* the parent pointers: of the stored rows and of the lineage map
ParentRel ==
  {<<traces[i].run_id, traces[i].forked_from_run_id>> :
      i \in {j \in Indices(traces) : traces[j].forked_from_run_id # NoRun}}
  \cup {<<r, runLineage[r].forkedFromRunId>> :
          r \in {x \in DOMAIN runLineage : runLineage[x].forkedFromRunId # NoRun}}

RECURSIVE Ancestors(_, _)
\* the runs reached from the runs of frontier by one or more parent pointers
Ancestors(frontier, seen) ==
  LET step == {e[2] : e \in {x \in ParentRel : x[1] \in frontier}} \ seen
  IN IF step = {} THEN seen ELSE Ancestors(step, seen \cup step)

AllRuns == StoredRuns(traces) \cup DOMAIN runLineage

RowsOf(tr, run) == {i \in Indices(tr) : tr[i].run_id = run}

\* the runs at which a parent chain ends
Roots(run) == {a \in Ancestors({run}, {}) \cup {run} :
                 \A e \in ParentRel : e[1] # a}

\* C1: following forked_from_run_id pointers from any run never comes back
\* to a run already visited, and the chain ends at a run that is not a fork.
C1_ParentChainAcyclic ==
  \A r \in AllRuns :
     /\ r \notin Ancestors({r}, {})
     /\ \A a \in Roots(r) :
           /\ \A i \in RowsOf(traces, a) : traces[i].is_fork = 0
           /\ MapGet(runLineage, a, DefaultLineage).isFork = 0

\* C2: once a fork of run O is requested, no step changes is_fork or
\* forked_from_run_id on a stored row of O, the ingest of later events of O
\* included.
C2_OriginRowsUntouched ==
  [][\A k \in Indices(forks'), i \in Indices(traces) :
        traces[i].run_id = forks'[k].originalRunId
          => /\ traces'[i].is_fork = traces[i].is_fork
             /\ traces'[i].forked_from_run_id = traces[i].forked_from_run_id]_vars

\* C3: a run N that received an event of session S while S had the explicit
\* head P, N # P, and N had at most 2 stored rows, carries is_fork = 1 and
\* forked_from_run_id = P in the lineage map and on every stored row, the
\* rows stored afterwards included.
C3_PromotedToHead ==
  \A n \in DOMAIN stamped :
     /\ MapHas(runLineage, n)
     /\ runLineage[n].isFork = 1
     /\ runLineage[n].forkedFromRunId = stamped[n]
     /\ \A i \in RowsOf(traces, n) :
           traces[i].is_fork = 1 /\ traces[i].forked_from_run_id = stamped[n]

\* C4: when the agent request of a fork has been handed to the gateway, the
\* fork_info row (seq 0) of the fork's placeholder run is in the store.
C4_ForkInfoBeforeAgentRequest ==
  \A g \in Indices(gwSent) :
     gwSent[g].method = "agent"
       => \E i \in Indices(traces) :
             /\ traces[i].run_id = forks[gwSent[g].fork].newSessionId
             /\ traces[i].seq = 0
             /\ traces[i].stream = "fork_info"

\* an agent request is out
C4_Witness ==
  \E g \in Indices(gwSent) : gwSent[g].method = "agent"

CurrentLinkState ==
  LinkState(traces, pendingForks, linkedForkRuns, runLineage, sessionForkHeads)

\* C5: tryLinkFork(r) twice in a row leaves the store, the lineage map, the
\* fork heads and the pending forks as one call leaves them.
C5_TryLinkForkIdempotent ==
  \A r \in AllRuns \cup TracerRuns :
     tryLinkFork(tryLinkFork(CurrentLinkState, r), r)
       = tryLinkFork(CurrentLinkState, r)

\* an ingest has just linked its run to a pending fork, and another pending
\* fork the run could be linked to is left
C5_Witness ==
  /\ last.op = "ingest"
  /\ last.linked
  /\ Linkable(pendingForks, last.run) # {}

\* the placeholder of the fork created last for session s, or NoRun
LatestPlaceholder(s) ==
  LET ks == {k \in Indices(forks) : forks[k].sessionKey = s}
  IN IF ks = {} THEN NoRun
     ELSE forks[CHOOSE k \in ks : \A j \in ks : j <= k].newSessionId

\* C8: every entry of sessionForkHeads is the placeholder of the explicit
\* fork created last for its session.
C8_HeadIsLatestPlaceholder ==
  \A s \in DOMAIN sessionForkHeads :
     sessionForkHeads[s] = LatestPlaceholder(s)

\* C9: for every fork with origin O and session key S, the rows fetched by S
\* hold the placeholder's events, each with is_fork = 1 and
\* forked_from_run_id = O.
C9_PlaceholderFetchedWithOrigin ==
  \A k \in Indices(forks) :
     forks[k].sessionKey # Null =>
       LET rows == GetTraces(traces, forks[k].sessionKey)
           mine == {i \in Indices(rows) : rows[i].run_id = forks[k].newSessionId}
       IN /\ mine # {}
          /\ \A i \in mine :
                /\ rows[i].is_fork = 1
                /\ rows[i].forked_from_run_id = forks[k].originalRunId

\* ============================================================ long runs
\* C7: no ingest step changes is_fork or forked_from_run_id on a stored row
\* of a run that has more than 2 stored rows.
C7_LongRunsNotRewritten ==
  [][last'.op = "ingest" =>
       \A i \in Indices(traces) :
          getRunEventCountStmt(traces, traces[i].run_id) > AUTO_PROMOTE_MAX_EVENTS
            => /\ traces'[i].is_fork = traces[i].is_fork
               /\ traces'[i].forked_from_run_id = traces[i].forked_from_run_id]_vars

\* =============================================================== rewind
\* C6: the rows of every run, in insertion order, have non-decreasing seq.
C6_SeqNonDecreasingInStoreOrder ==
  \A i, j \in Indices(traces) :
     (i < j /\ traces[i].run_id = traces[j].run_id)
       => traces[i].seq <= traces[j].seq

\* C10: a rewind of the run to the seq T of one of its frames leaves every
\* file the agent wrote after that frame with the content it had when the
\* frame was sent.
C10_RewindRestoresStateAtTarget ==
  [][last'.op = "rewind" =>
       \A w \in fsHist.wrote :
          (w.after >= last'.targetSeq /\ MapHas(fsHist.diskAt, last'.targetSeq))
            => disk'[w.filePath] = fsHist.diskAt[last'.targetSeq][w.filePath]]_vars

\* the snapshot rows of run and path with seq <= targetSeq
SnapshotsUpTo(run, path, targetSeq) ==
  {i \in Indices(file_snapshots) :
     /\ file_snapshots[i].run_id = run
     /\ file_snapshots[i].file_path = path
     /\ file_snapshots[i].seq <= targetSeq}

\* the earliest of them
EarliestSnapshot(run, path, targetSeq) ==
  file_snapshots[CHOOSE i \in SnapshotsUpTo(run, path, targetSeq) :
                   \A j \in SnapshotsUpTo(run, path, targetSeq) :
                      \/ file_snapshots[i].seq < file_snapshots[j].seq
                      \/ file_snapshots[i].seq = file_snapshots[j].seq /\ i <= j]

AllSucceeded(results) == \A k \in Indices(results) : results[k].success

C12_GatewayFailureAnswers502 ==
  [][last'.op = "fork_failed" =>
       LET h == forks'[last'.k]
       IN /\ h.status = 502
          /\ ~h.success
          /\ ~PendingHas(pendingForks', h.newSessionId)
          /\ RowsOf(traces, h.newSessionId) # {}
          /\ \A i \in RowsOf(traces, h.newSessionId) : traces'[i] = traces[i]]_vars

\* the gateway call of a fork no run was linked to has just failed, while
\* another fork is pending
C12_Witness ==
  /\ last.op = "fork_failed"
  /\ forks[last.k].status = 502
  /\ \A r \in DOMAIN runLineage :
        runLineage[r].forkedFromRunId # forks[last.k].newSessionId
  /\ pendingForks # <<>>

LinkedInStep ==
  {i \in Indices(pendingForks) :
     \E r \in linkedForkRuns' \ linkedForkRuns :
        runLineage'[r].forkedFromRunId = pendingForks[i].placeholderRunId}

\* C14: no run is linked to a pending fork that was started more than five
\* minutes before the linking.
C14_NoLinkAfterExpiry ==
  [][\A i \in LinkedInStep :
        now' - pendingForks[i].startedAt <= PENDING_FORK_TTL_MS]_vars

C16_PreviewCountsResults ==
  [][(last.op = "preview" /\ last'.op = "rewind"
        /\ last'.run = last.run /\ last'.targetSeq = last.targetSeq)
       => Len(last'.results) = Len(last.files)]_vars

\* a rewind right after its preview, of a file that has two snapshots up to
\* the target
C16_Witness ==
  /\ last.op = "rewind" /\ last.success /\ last.previewed
  /\ Len(last.results) = 1
  /\ Len(getSnapshotsBeforeSeqStmt(file_snapshots, last.run, last.targetSeq)) = 2

\* the file states a rewind works through
RewindFileStates(run, targetSeq) ==
  computeRewindFileStates(getSnapshotsBeforeSeqStmt(file_snapshots, run,
                                                    targetSeq))

\* C17: in a rewind with a non-empty snapshot set every file gets a result,
\* in order; a file whose restore or delete fails is reported with
\* success=false and left alone, every other file is restored or deleted,
\* and the call answers success=true if at least one file succeeded.
C17_FailingFileDoesNotStopRewind ==
  [][(last'.op = "rewind"
        /\ getSnapshotsBeforeSeqStmt(file_snapshots, last'.run,
                                     last'.targetSeq) # <<>>)
       => LET states == RewindFileStates(last'.run, last'.targetSeq)
              results == last'.results
          IN /\ Len(results) = Len(states)
             /\ \A k \in Indices(states) :
                  /\ results[k].filePath = states[k].filePath
                  /\ results[k].success <=> states[k].filePath \notin last'.failPaths
                  /\ ~results[k].success =>
                       /\ results[k].action = "failed"
                       /\ disk'[states[k].filePath] = disk[states[k].filePath]
                  /\ results[k].success =>
                       disk'[states[k].filePath].exists = states[k].originalExisted
             /\ (\E k \in Indices(results) : results[k].success) => last'.success]_vars

\* the first file failed and the second one was restored or deleted, with a
\* change on disk
C17_Witness ==
  /\ last.op = "rewind" /\ last.success
  /\ Len(last.results) = 2
  /\ ~last.results[1].success /\ last.results[2].success
  /\ disk[last.results[2].filePath] # last.before[last.results[2].filePath]

\* the tool_call_start rows of a run and file whose content_after is NULL
OpenStartRows(sn, run, path) ==
  {i \in Indices(sn) : /\ sn[i].run_id = run /\ sn[i].file_path = path
                       /\ sn[i].tool_name \notin {"config_change", "setup_file_change"}
                       /\ sn[i].content_after = Null}

\* the step stores a tool_call_end frame that carries a file snapshot
ToolEndIngested ==
  /\ last'.op = "ingest"
  /\ Len(traces') = Len(traces) + 1
  /\ traces'[Len(traces')].data.type = "tool_call_end"
  /\ traces'[Len(traces')].data.fileSnapshot # NoSnap

\* C18: a tool_call_end with a file snapshot fills content_after and
\* exists_after of exactly one row, the open tool_call_start row of its run
\* and file with the greatest seq (there being one), and touches nothing
\* else; when the end
\* follows its start directly, the newest row holds the start's
\* content_before and the end's content_after.
C18_ToolEndFillsLatestOpenStart ==
  [][ToolEndIngested =>
       LET row == traces'[Len(traces')]
           snap == row.data.fileSnapshot
           open == OpenStartRows(file_snapshots, row.run_id, snap.filePath)
           start == traces[Len(traces)]
       IN /\ open # {} =>
               \E k \in open :
                  /\ \A j \in open : file_snapshots[j].seq <= file_snapshots[k].seq
                  /\ file_snapshots' =
                       [file_snapshots EXCEPT
                          ![k].content_after = snap.contentAfter,
                          ![k].exists_after = Bit(snap.existsAfter)]
          /\ (/\ start.data.type = "tool_call_start"
              /\ start.run_id = row.run_id
              /\ start.data.fileSnapshot.filePath = snap.filePath) =>
               LET n == Len(file_snapshots')
               IN /\ n = Len(file_snapshots)
                  /\ file_snapshots'[n].seq = start.seq
                  /\ file_snapshots'[n].content_before =
                       start.data.fileSnapshot.contentBefore
                  /\ file_snapshots'[n].content_after = snap.contentAfter]_vars

\* an end has filled the newer of two open rows of a file after the agent
\* wrote it, and the older row is still open
C18_Witness ==
  /\ last.op = "ingest"
  /\ traces # <<>> /\ traces[Len(traces)].data.type = "tool_call_end"
  /\ traces[Len(traces)].data.fileSnapshot # NoSnap
  /\ \E i, k \in Indices(file_snapshots) :
       /\ i < k
       /\ file_snapshots[i].file_path = file_snapshots[k].file_path
       /\ file_snapshots[i].content_after = Null
       /\ file_snapshots[k].content_after # Null
       /\ file_snapshots[k].content_after # file_snapshots[k].content_before

\* the session key the background fallback finds in the store
KnownSessionKey(tr) ==
  IF getLatestForkSessionKeyStmt(tr) # Null THEN getLatestForkSessionKeyStmt(tr)
  ELSE getLatestSessionKeyStmt(tr)

\* C19: a config_change frame without run id and session key is stored
\* under a bg_* run id if the store knows a session key, and is dropped
\* (no row is stored) if it knows none.
C19_BackgroundFrameStoredOrDropped ==
  [][(/\ last'.op = "ingest" /\ last'.type = "config_change"
      /\ last'.frameRunId = UnknownRun /\ last'.frameSessionKey = Null)
       => IF KnownSessionKey(traces) # Null
          THEN /\ Len(traces') = Len(traces) + 1
               /\ traces'[Len(traces')].run_id =
                    BgRunId(KnownSessionKey(traces), now, seq')
          ELSE traces' = traces]_vars

\* the leaf at p of the config file is sensitive: a key on its path matches
\* the pattern, it lies under env, or it is gateway.auth.token
SensitiveLeaf(p) ==
  \/ \E i \in Indices(p) : SensitiveKey(p[i])
  \/ Len(p) >= 2 /\ p[1] = Key.env
  \/ p = <<Key.gateway, Key.auth, Key.token>>

\* C20: the config the route answers with holds no original value of a
\* sensitive leaf: where the file has one, the answer has "[REDACTED]" at
\* the leaf or above it.
C20_ConfigRedacted ==
  last.op = "openclaw_config" =>
    \A p \in DOMAIN disk[OPENCLAW_CONFIG_PATH].content :
       SensitiveLeaf(p) =>
         /\ p \notin DOMAIN last.config \/ last.config[p] = REDACTED
         /\ \A q \in DOMAIN last.config :
              (Len(q) <= Len(p) /\ SubSeq(p, 1, Len(q)) = q) =>
                 last.config[q] = REDACTED

\* a message payload marked synthetic
SyntheticMessage(data) ==
  /\ data.type \in {"message_received", "message_sent"}
  /\ Field(data, "synthetic", FALSE)

\* the rows of tr without the synthetic messages
WithoutSynthetic(tr) == SelectSeq(tr, LAMBDA row : ~SyntheticMessage(row.data))

\* C21: the hint of a fork is the hint derived when every synthetic message
\* (the modified payload, the rows of the history, the rows of the session)
\* is left out.
C21_HintSkipsSynthetic ==
  [][last'.op = "fork_start" =>
       LET h == forks'[Len(forks')]
           info == traces'[Len(traces) + 1].data
           history == getTracesBeforeSeq(WithoutSynthetic(traces),
                                         h.originalRunId, info.forkFromSeq)
       IN h.deliveryHint =
            deriveForkDeliveryHint(WithoutSynthetic(traces),
                                   IF SyntheticMessage(h.modifiedData)
                                   THEN [type |-> Null] ELSE h.modifiedData,
                                   history, h.sessionKey)]_vars

\* the hint names a configured channel, or no channel is configured
HintConfigured(hint) ==
  (hint # NoHint /\ configuredChannels # {}) => hint.channel \in configuredChannels

Authenticated == gwCall.kind # Null /\ gwCall.authenticated /\ ~gwCall.resolved

\* C23: an authenticated gateway call leaves res frames with
\* payload.status "accepted" and event frames alone, and it resolves only on
\* a res frame whose id is the id of the request it sent.
C23_ResolvesOnlyOnOwnResponse ==
  [][(Authenticated /\ last'.op = "gw_message") =>
       LET frame == last'.frame
       IN /\ (frame.type = "event"
               \/ (frame.type = "res" /\ frame.status = "accepted"))
                => gwCall' = gwCall
          /\ gwCall'.outcome = "resolved"
                => (frame.type = "res" /\ frame.id = gwCall.reqId)]_vars

\* the agent or send requests a call has put on its socket
RequestsSent(call) ==
  {i \in Indices(call.sent) : call.sent[i].method \in {"agent", "send"}}

\* C24: the agent or send request goes out only in the step that handles the
\* connect response (the res frame received before authentication, after the
\* connect request) with ok not false and no error; a connect response with
\* ok = false or an error fails the call, and the request is never sent.
C24_RequestOnlyAfterConnectOk ==
  /\ [][(gwCall'.n = gwCall.n /\ RequestsSent(gwCall') # RequestsSent(gwCall)) =>
          /\ last'.op = "gw_message"
          /\ last'.frame.type = "res"
          /\ last'.frame.ok # "false" /\ last'.frame.error = Null
          /\ ~gwCall.authenticated
          /\ gwCall.sent = <<[method |-> "connect", id |-> ConnectId]>>]_vars
  /\ [][(/\ last'.op = "gw_message" /\ last'.frame.type = "res"
          /\ gwCall.kind # Null /\ ~gwCall.authenticated /\ ~gwCall.resolved
          /\ (last'.frame.ok = "false" \/ last'.frame.error # Null)) =>
            (gwCall'.outcome = "rejected" /\ RequestsSent(gwCall') = {})]_vars
  /\ [](gwCall.message = "Gateway auth failed" =>
            (gwCall.outcome = "rejected" /\ RequestsSent(gwCall) = {}))

\* a send request is on the socket, after the connect request
C24_Witness ==
  /\ gwCall.kind = "send"
  /\ gwCall.sent = <<[method |-> "connect", id |-> ConnectId],
                     [method |-> "send", id |-> RequestId]>>

\* C25: every gateway call settles, an agent call within 120 s of its
\* start and a send call within 30 s; a call that times out has its socket
\* closed and fails.
C25_CallSettlesInTime ==
  /\ (gwCall.kind # Null /\ ~gwCall.resolved) ~> gwCall.resolved
  /\ [](gwCall.kind = "agent" =>
          IF gwCall.resolved
          THEN gwCall.settledAt <= gwCall.startedAt + GATEWAY_TIMEOUT_MS
          ELSE now <= gwCall.startedAt + GATEWAY_TIMEOUT_MS)
  /\ [](gwCall.kind = "send" =>
          IF gwCall.resolved
          THEN gwCall.settledAt <= gwCall.startedAt + FORK_ECHO_TIMEOUT_MS
          ELSE now <= gwCall.startedAt + FORK_ECHO_TIMEOUT_MS)
  /\ [](gwCall.message = "timed out" =>
          (gwCall.outcome = "rejected" /\ gwCall.socket = "closed"))

\* an agent call that got no final response was failed by its timer at 120 s
C25_Witness ==
  /\ gwCall.kind = "agent" /\ gwCall.authenticated
  /\ gwCall.message = "timed out"
  /\ gwCall.settledAt = gwCall.startedAt + GATEWAY_TIMEOUT_MS

\* C26: the control flag __forkedRewindFirst is never persisted: the
\* modifiedData of every stored fork_info event and of every pending-fork
\* entry lacks the key.
C26_RewindFlagNotPersisted ==
  /\ \A i \in Indices(traces) :
        traces[i].data.type = "fork_info" =>
           "__forkedRewindFirst" \notin DOMAIN traces[i].data.modifiedData
  /\ \A i \in Indices(pendingForks) :
        "__forkedRewindFirst" \notin DOMAIN pendingForks[i].modifiedData

\* a fork requested with the flag has its fork_info event stored and its
\* pending entry registered
C26_Witness ==
  \E k \in Indices(forks) :
    /\ "__forkedRewindFirst" \in DOMAIN forks[k].modifiedData
    /\ \E i \in Indices(pendingForks) :
          pendingForks[i].placeholderRunId = forks[k].newSessionId
    /\ \E i \in Indices(traces) :
          /\ traces[i].run_id = forks[k].newSessionId
          /\ traces[i].data.type = "fork_info"

\* (ts, seq) of row a is not after (ts, seq) of row b
TsSeqLeq(a, b) == a.ts < b.ts \/ (a.ts = b.ts /\ a.seq <= b.seq)

\* C27: a fetch of the traces by a run id answers with all stored events
\* of the run, in non-decreasing (ts, seq) order.
C27_FetchByRunIdOrdered ==
  (last.op = "get_traces" /\ last.runIdRows = {}) =>
     LET run == TracerId(last.sessionId)
         stored == {i \in Indices(traces) : traces[i].run_id = run}
     IN /\ Len(last.rows) = Cardinality(stored)
        /\ \A i \in stored : \E j \in Indices(last.rows) : last.rows[j] = traces[i]
        /\ \A i, j \in Indices(last.rows) :
              i < j => TsSeqLeq(last.rows[i], last.rows[j])

\* C28: no run is its own parent: no stored row and no entry of the
\* in-memory lineage has forked_from_run_id equal to its own run id.
C28_NoRunIsItsOwnParent ==
  /\ \A i \in Indices(traces) : traces[i].forked_from_run_id # traces[i].run_id
  /\ \A r \in DOMAIN runLineage : runLineage[r].forkedFromRunId # r

\* C30: tryLinkFork(r), called for a run r not yet linked, links only
\* against the oldest pending fork P: when r is P's placeholder or P's
\* origin no link is made at all, otherwise r is linked to P and P leaves the
\* pending forks; r is never linked to a younger pending fork.
C30_LinksOnlyOldestPending ==
  [][(last'.op = "ingest" /\ last'.tried /\ last'.run \notin linkedForkRuns) =>
       LET r == last'.run
           P == pendingForks[1]
       IN IF r = P.placeholderRunId \/ r = P.originalRunId
          THEN /\ linkedForkRuns' = linkedForkRuns
               /\ pendingForks' = pendingForks
          ELSE /\ r \in linkedForkRuns'
               /\ runLineage'[r].forkedFromRunId = P.placeholderRunId
               /\ pendingForks' = Tail(pendingForks)]_vars

\* C29: an ingest frame whose processing fails is dropped: the store rows
\* and the lineage, fork-head and pending-fork maps are as they were before
\* the frame.
C29_FailedFrameChangesNothing ==
  [][last'.op = "ingest_failed" =>
       /\ traces' = traces
       /\ file_snapshots' = file_snapshots
       /\ runLineage' = runLineage
       /\ sessionForkHeads' = sessionForkHeads
       /\ pendingForks' = pendingForks]_vars

\* the rows of s, last first
Reverse(s) == [i \in Indices(s) |-> s[Len(s) + 1 - i]]

\* the hint of the most recent usable message of the rows, given oldest
\* first: a message_received if there is one, else a message_sent
MostRecentHint(rows, sessionChannel) ==
  LET usable(ty, key) ==
        {i \in Indices(rows) :
           /\ ~Field(rows[i], "synthetic", FALSE)
           /\ rows[i].type = ty
           /\ Field(rows[i], key, NoAddr) # NoAddr
           /\ matchesSessionChannel(
                parseDeliveryHintFromAddress(rows[i][key]), sessionChannel)}
      newest(idx) == CHOOSE i \in idx : \A j \in idx : j <= i
  IN IF usable("message_received", "from") # {}
     THEN parseDeliveryHintFromAddress(
            rows[newest(usable("message_received", "from"))].from)
     ELSE IF usable("message_sent", "to") # {}
     THEN parseDeliveryHintFromAddress(
            rows[newest(usable("message_sent", "to"))].to)
     ELSE NoHint

\* C31: in the history slice, and in the last 200 lifecycle events of the
\* session when the search gets to them, the hint taken is that of the most
\* recent message_received that is not synthetic and matches the session
\* channel, and that of the most recent such message_sent if there is none.
C31_HintOfMostRecentMessage ==
  [][last'.op = "fork_start" =>
       LET h == forks'[Len(forks')]
           info == traces'[Len(traces) + 1].data
           sessionChannel == parseChannelFromSessionKey(h.sessionKey)
           rows == getTracesBeforeSeq(traces, h.originalRunId, info.forkFromSeq)
           history == [i \in Indices(rows) |-> rows[i].data]
           fromModified == extractDeliveryHintFromEventData(h.modifiedData)
           fromHistory == findPreferredHintFromRows(history, sessionChannel)
           session == getRecentLifecycleEventsForSessionStmt(traces, h.sessionKey)
       IN /\ fromHistory = MostRecentHint(history, sessionChannel)
          /\ (/\ ~(/\ fromModified # NoHint
                    /\ isConfiguredChannel(fromModified.channel)
                    /\ matchesSessionChannel(fromModified, sessionChannel))
              /\ ~(fromHistory # NoHint /\ isConfiguredChannel(fromHistory.channel))
              /\ h.sessionKey # Null)
             => findPreferredHintFromRows(session, sessionChannel)
                  = MostRecentHint(Reverse(session), sessionChannel)]_vars

\* C32: the UI's branch assignment is a tree rooted at the Main Timeline:
\* every run of the session, with all its events, lands in a lane of the
\* tree, and every lane, main or explicit-fork placeholder, is reachable
\* from the root.
C32_LanesFormTreeFromMain ==
  last.op = "lanes" =>
     /\ \A r \in DOMAIN last.tree.branchOf :
           last.tree.branchOf[r] \in last.tree.lanes
     /\ last.tree.explicitRuns \subseteq last.tree.lanes

\* C33: a run id the agent call of a fork returns, when the handler links
\* it, is linked to the placeholder of that same fork, whatever other forks
\* are pending: its forked_from_run_id is the newRunId of this fork.
C33_GatewayRunLinkedToOwnFork ==
  [][(/\ last'.op = "fork_finish"
      /\ last'.gatewayRunId # NoRun
      /\ last'.gatewayRunId \in linkedForkRuns' \ linkedForkRuns) =>
        /\ runLineage'[last'.gatewayRunId].forkedFromRunId
             = forks[last'.k].newSessionId
        /\ \A i \in Indices(traces') :
             traces'[i].run_id = last'.gatewayRunId =>
                traces'[i].forked_from_run_id = forks[last'.k].newSessionId]_vars

\* C34: once a run is stamped as a fork with a parent, no later step
\* changes its forked_from_run_id, in the stored rows or in the lineage map;
\* the parent of a fork placeholder stays its origin.
C34_ParentStampIsFinal ==
  [][/\ \A i \in Indices(traces) :
          (traces[i].is_fork = 1 /\ traces[i].forked_from_run_id # NoRun) =>
             traces'[i].forked_from_run_id = traces[i].forked_from_run_id
     /\ \A r \in DOMAIN runLineage :
          (runLineage[r].isFork = 1 /\ runLineage[r].forkedFromRunId # NoRun) =>
             runLineage'[r].forkedFromRunId = runLineage[r].forkedFromRunId]_vars

\* the session keys the fork_info rows of run p were created for
PlaceholderSessions(p) ==
  {traces[i].session_key : i \in {j \in Indices(traces) :
      traces[j].run_id = p /\ traces[j].stream = "fork_info"}}

\* C35: linkage never crosses sessions: a run whose session key is known
\* is never stamped with a placeholder created for another session key, and
\* the fork head of a session is never a placeholder of another session.
C35_LinkageStaysInSession ==
  /\ \A r \in DOMAIN runLineage :
        runLineage[r].sessionKey # Null =>
           PlaceholderSessions(runLineage[r].forkedFromRunId)
              \subseteq {runLineage[r].sessionKey}
  /\ \A i \in Indices(traces) :
        traces[i].session_key # Null =>
           PlaceholderSessions(traces[i].forked_from_run_id)
              \subseteq {traces[i].session_key}
  /\ \A sk \in DOMAIN sessionForkHeads :
        PlaceholderSessions(sessionForkHeads[sk]) \subseteq {sk}


\* C36: whenever POST /api/fork has sent its response (200, 400, 500 or 502),
\* pendingForks no longer holds the entry the handler registered for that fork.
C36_NoPendingEntryAfterResponse == \A k \in Indices(forks) : forks[k].pc = "done" => ~PendingHas(pendingForks, forks[k].newSessionId)


\* C37: between operations, all stored rows of one run carry the same
\* (is_fork, forked_from_run_id) stamp, and that stamp is the run's entry in
\* runLineage.
C37_RowStampsAgreeWithLineage == \A i \in Indices(traces) : /\ MapHas(runLineage, traces[i].run_id) /\ traces[i].is_fork = runLineage[traces[i].run_id].isFork /\ traces[i].forked_from_run_id = runLineage[traces[i].run_id].forkedFromRunId


\* C38: every non-null forked_from_run_id, in a stored row or in runLineage,
\* names a run that has at least one stored row.
C38_ParentsAreStored == /\ \A i \in Indices(traces) : traces[i].forked_from_run_id # NoRun => traces[i].forked_from_run_id \in StoredRuns(traces)
                        /\ \A r \in DOMAIN runLineage : runLineage[r].forkedFromRunId # NoRun => runLineage[r].forkedFromRunId \in StoredRuns(traces)


\* C39: a gateway call settles at most once: once it is settled, no frame,
\* timer, error or close event changes its outcome or sends another request.
C39_SettlesAtMostOnce == [][(gwCall.resolved /\ gwCall'.n = gwCall.n) => (gwCall'.resolved /\ gwCall'.outcome = gwCall.outcome /\ gwCall'.message = gwCall.message /\ gwCall'.settledAt = gwCall.settledAt /\ gwCall'.sent = gwCall.sent)]_vars

\* a response frame reaches the message handler of a call that has timed out
C39_Witness == /\ last.op = "gw_late_message" /\ last.frame.type = "res" /\ ~FrameFailed(last.frame)
               /\ gwCall.outcome = "rejected" /\ gwCall.message = "timed out"


\* the placeholder a linked run was adopted by, in the lineage map m
AdoptedBy(m, r) == m[r].forkedFromRunId

\* C40: pending-fork adoption is one-to-one.  A run that has consumed a
\* pending fork never consumes another one; every adoption consumes a fork
\* that was pending and is pending no longer; and no two runs were adopted by
\* the same fork.
C40_AdoptionIsOneToOne == [][/\ \A r \in linkedForkRuns : r \in linkedForkRuns' /\ AdoptedBy(runLineage', r) = AdoptedBy(runLineage, r)
                             /\ \A r \in linkedForkRuns' \ linkedForkRuns : PendingHas(pendingForks, AdoptedBy(runLineage', r)) /\ ~PendingHas(pendingForks', AdoptedBy(runLineage', r))
                             /\ \A r1, r2 \in linkedForkRuns' : AdoptedBy(runLineage', r1) = AdoptedBy(runLineage', r2) => r1 = r2]_vars

\* a frame of a run that a fork has adopted arrives on a new connection
\* while another fork is pending: tryLinkFork is called for it again
C40_Witness == /\ last.op = "ingest" /\ last.tried /\ ~last.linked
               /\ last.run \in linkedForkRuns /\ Linkable(pendingForks, last.run) # {}

====
